---- MODULE Spec2Model ----
(***************************************************************************)
(* A model of devine's HLS downloader core (devine/core/manifests/hls.py): *)
(* HLS.download_track, HLS.get_supported_key, HLS.get_drm and              *)
(* HLS.calculate_byte_range.                                               *)
(*                                                                         *)
(* Python values are modelled as follows.                                  *)
(*   str        a sequence of one-character strings, <<"1","0","0">>       *)
(*   int | str  a tagged record, PyInt(n) or PyStr(s), where the code      *)
(*              lets one variable hold either                              *)
(*   None       the empty tuple <<>> for an optional tuple, NoKey for an   *)
(*              optional key, NoneStr for an optional attribute            *)
(*   raise      a result record [ok |-> FALSE, err |-> <exception name>]   *)
(***************************************************************************)
EXTENDS Integers, Sequences, FiniteSets, TLC

(***************************************************************************)
(* Python str primitives used by the code.                                 *)
(***************************************************************************)

DigitChars == <<"0", "1", "2", "3", "4", "5", "6", "7", "8", "9">>

IsDigitChar(c) == \E d \in 1..10 : DigitChars[d] = c

DigitValue(c) == (CHOOSE d \in 1..10 : DigitChars[d] = c) - 1

\* str.isdigit(): non-empty and every character a digit
IsDigit(s) == Len(s) > 0 /\ \A k \in 1..Len(s) : IsDigitChar(s[k])

\* the value of a string of digits
RECURSIVE DigitsToNat(_)
DigitsToNat(s) ==
    IF Len(s) = 0 THEN 0
    ELSE 10 * DigitsToNat(SubSeq(s, 1, Len(s) - 1)) + DigitValue(s[Len(s)])

\* int(x) accepts an optional sign followed by digits, and raises ValueError otherwise
IntParses(s) ==
    \/ IsDigit(s)
    \/ Len(s) > 1 /\ s[1] \in {"-", "+"} /\ IsDigit(Tail(s))

ParseInt(s) ==
    IF IsDigit(s) THEN DigitsToNat(s)
    ELSE IF s[1] = "-" THEN 0 - DigitsToNat(Tail(s))
    ELSE DigitsToNat(Tail(s))

\* str(n) for an int n
RECURSIVE NatToStr(_)
NatToStr(n) ==
    IF n < 10 THEN <<DigitChars[n + 1]>>
    ELSE NatToStr(n \div 10) \o <<DigitChars[(n % 10) + 1]>>

IntToStr(n) == IF n < 0 THEN <<"-">> \o NatToStr(0 - n) ELSE NatToStr(n)

\* s.zfill(width) for a string of digits
RECURSIVE ZFill(_, _)
ZFill(s, width) == IF Len(s) >= width THEN s ELSE ZFill(<<"0">> \o s, width)

\* s.split(sep) for a one-character separator
RECURSIVE Split(_, _)
Split(s, sep) ==
    IF \E k \in 1..Len(s) : s[k] = sep
    THEN LET k == CHOOSE k \in 1..Len(s) : s[k] = sep /\ \A j \in 1..(k - 1) : s[j] # sep
         IN  <<SubSeq(s, 1, k - 1)>> \o Split(SubSeq(s, k + 1, Len(s)), sep)
    ELSE <<s>>

\* sep.join(parts)
RECURSIVE Join(_, _)
Join(parts, sep) ==
    IF Len(parts) = 0 THEN <<>>
    ELSE IF Len(parts) = 1 THEN parts[1]
    ELSE parts[1] \o <<sep>> \o Join(Tail(parts), sep)

PyInt(n) == [t |-> "int", v |-> n]
PyStr(s) == [t |-> "str", v |-> s]

Ok(v) == [ok |-> TRUE, val |-> v]
Raise(e) == [ok |-> FALSE, err |-> e]

(***************************************************************************)
(* HLS.calculate_byte_range(m3u_range, fallback_offset)                    *)
(***************************************************************************)

\* parts = [int(x) for x in m3u_range.split("@")]
RangeParts(m3u_range) ==
    LET toks == Split(m3u_range, "@")
    IN  IF \A k \in 1..Len(toks) : IntParses(toks[k])
        THEN Ok([k \in 1..Len(toks) |-> PyInt(ParseInt(toks[k]))])
        ELSE Raise("ValueError")

calculate_byte_range_off_by_one(m3u_range, fallback_offset) ==
    LET p == RangeParts(m3u_range)
    IN  IF ~p.ok THEN p
        ELSE LET parts == IF Len(p.val) # 2 THEN Append(p.val, fallback_offset) ELSE p.val
             IN  IF Len(parts) # 2 THEN Raise("ValueError")
                 ELSE IF parts[2].t # "int" THEN Raise("TypeError")
                 ELSE Ok(IntToStr(parts[2].v) \o <<"-">> \o IntToStr(parts[2].v + parts[1].v))

calculate_byte_range(m3u_range, fallback_offset) ==
    LET p == RangeParts(m3u_range)
    IN  IF ~p.ok THEN p
        ELSE \* if len(parts) != 2: parts.append(fallback_offset)
             LET parts == IF Len(p.val) # 2 THEN Append(p.val, fallback_offset) ELSE p.val
             IN  \* length, offset = parts
                 IF Len(parts) # 2 THEN Raise("ValueError")
                 \* offset + length - 1 with a str offset
                 ELSE IF parts[2].t # "int" THEN Raise("TypeError")
                 ELSE Ok(IntToStr(parts[2].v) \o <<"-">>
                         \o IntToStr(parts[2].v + parts[1].v - 1))

(***************************************************************************)
(* EXT-X-KEY descriptors (m3u8.Key): method, keyformat, uri.  The uri is   *)
(* kept as its comma-separated parts, so uri.split(",")[-1] is the last.   *)
(***************************************************************************)

NoneStr == "<None>"

\* Python None where a key is expected
NoKey == [none |-> TRUE]

\* pywidevine's Cdm.urn
WidevineUrn == "urn:uuid:edef8ba9-79d6-4ace-a3c8-27dcd51d21ed"
WidevineUrnMixed == "URN:UUID:EDEF8BA9-79D6-4ACE-A3C8-27DCD51D21ED"
FairPlayFormat == "com.apple.streamingkeydelivery"

\* str.lower() on the keyformat strings of the model
Lower(s) == IF s = WidevineUrnMixed THEN WidevineUrn ELSE s

\* truthiness of an optional str: None and "" are falsy
Truthy(s) == s # NoneStr /\ s # ""

Key(method, keyformat, uri) == [method |-> method, keyformat |-> keyformat, uri |-> uri]

\* key.method + (f" ({key.keyformat})" if key.keyformat else "")
SystemLabel(key) ==
    key.method \o (IF Truthy(key.keyformat) THEN " (" \o key.keyformat \o ")" ELSE "")

\* ", ".join(labels) on Python strings
RECURSIVE JoinComma(_)
JoinComma(labels) ==
    IF Len(labels) = 0 THEN ""
    ELSE IF Len(labels) = 1 THEN labels[1]
    ELSE labels[1] \o ", " \o JoinComma(Tail(labels))

RaiseMsg(e, msg) == [ok |-> FALSE, err |-> e, msg |-> msg]

(***************************************************************************)
(* HLS.get_supported_key(keys)                                             *)
(***************************************************************************)

\* any(key.method == "NONE" for key in keys): True, False, or AttributeError
\* when a None entry is reached before a NONE descriptor
RECURSIVE AnyMethodNone(_)
AnyMethodNone(keys) ==
    IF Len(keys) = 0 THEN Ok(FALSE)
    ELSE IF Head(keys) = NoKey THEN Raise("AttributeError")
    ELSE IF Head(keys).method = "NONE" THEN Ok(TRUE)
    ELSE AnyMethodNone(Tail(keys))

IsSupportedKey_case_sensitive(key) ==
    \/ key.method = "AES-128"
    \/ key.method = "ISO-23001-7"
    \/ Truthy(key.keyformat) /\ key.keyformat = WidevineUrn

IsSupportedKey(key) ==
    \/ key.method = "AES-128"
    \/ key.method = "ISO-23001-7"
    \/ Truthy(key.keyformat) /\ Lower(key.keyformat) = WidevineUrn

\* the for/else loop over keys, with the labels collected so far
RECURSIVE ScanKeys(_, _)
ScanKeys(keys, unsupported_systems) ==
    IF Len(keys) = 0
    THEN RaiseMsg("NotImplementedError",
                  "None of the key systems are supported: " \o JoinComma(unsupported_systems))
    ELSE LET key == Head(keys)
         IN  IF key = NoKey THEN ScanKeys(Tail(keys), unsupported_systems)
             ELSE IF IsSupportedKey(key) THEN Ok(key)
             ELSE ScanKeys(Tail(keys), Append(unsupported_systems, SystemLabel(key)))

get_supported_key_none_first_only(keys) ==
    IF Len(keys) > 0 /\ Head(keys) # NoKey /\ Head(keys).method = "NONE" THEN Ok(NoKey)
    ELSE ScanKeys(keys, <<>>)

get_supported_key_raises_on_first_unsupported(keys) ==
    LET hasNone == AnyMethodNone(keys)
    IN  IF ~hasNone.ok THEN hasNone
        ELSE IF hasNone.val THEN Ok(NoKey)
        ELSE IF IsSupportedKey(Head(keys)) THEN Ok(Head(keys))
        ELSE RaiseMsg("NotImplementedError",
                      "None of the key systems are supported: " \o SystemLabel(Head(keys)))

get_supported_key(keys) ==
    LET hasNone == AnyMethodNone(keys)
    IN  IF ~hasNone.ok THEN hasNone
        ELSE IF hasNone.val THEN Ok(NoKey)
        ELSE ScanKeys(keys, <<>>)

(***************************************************************************)
(* HLS.get_drm(key, proxy): the DRM handler built from a key.  A handler   *)
(* records its class, the constructor used and the constructor's argument. *)
(***************************************************************************)

Drm(cls, how, arg) == [cls |-> cls, how |-> how, arg |-> arg]

\* key.uri.split(",")[-1]
LastUriPart(key) == IF Len(key.uri) = 0 THEN "" ELSE key.uri[Len(key.uri)]

get_drm_keyformat_first(key) ==
    IF Truthy(key.keyformat) /\ Lower(key.keyformat) = WidevineUrn
    THEN Ok(Drm("Widevine", "PSSH", <<LastUriPart(key)>>))
    ELSE IF key.method = "AES-128"
    THEN Ok(Drm("ClearKey", "from_m3u_key", key.uri))
    ELSE IF key.method = "ISO-23001-7"
    THEN Ok(Drm("Widevine", "PSSH.new", <<LastUriPart(key)>>))
    ELSE Raise("NotImplementedError")

get_drm(key) ==
    IF key.method = "AES-128"
    THEN Ok(Drm("ClearKey", "from_m3u_key", key.uri))
    ELSE IF key.method = "ISO-23001-7"
    THEN Ok(Drm("Widevine", "PSSH.new", <<LastUriPart(key)>>))
    ELSE IF Truthy(key.keyformat) /\ Lower(key.keyformat) = WidevineUrn
    THEN Ok(Drm("Widevine", "PSSH", <<LastUriPart(key)>>))
    ELSE Raise("NotImplementedError")

(***************************************************************************)
(* Files.  A directory is a function from file names (str) to file data;   *)
(* file data is a sequence of chunks.  A chunk is the bytes of one         *)
(* downloaded resource: segment number id of the playlist, or the init     *)
(* section with uri id.  dec lists the DRM handlers whose decrypt() ran    *)
(* over the chunk, ops the text operations applied to it.                  *)
(***************************************************************************)

SegChunk(k) == [kind |-> "seg", id |-> k, dec |-> <<>>, ops |-> <<>>]
InitChunk(m) == [kind |-> "init", id |-> m, dec |-> <<>>, ops |-> <<>>]

\* the characters file names are made of, in code point order
CharOrder ==
    <<"-", ".", "0", "1", "2", "3", "4", "5", "6", "7", "8", "9", "_",
      "a", "b", "c", "d", "e", "f", "g", "h", "i", "j", "k", "l", "m",
      "n", "o", "p", "q", "r", "s", "t", "u", "v", "w", "x", "y", "z">>

Ord(c) == CHOOSE k \in 1..Len(CharOrder) : CharOrder[k] = c

\* a < b for two str, as Python compares them
RECURSIVE StrLess(_, _)
StrLess(a, b) ==
    IF Len(b) = 0 THEN FALSE
    ELSE IF Len(a) = 0 THEN TRUE
    ELSE IF Head(a) = Head(b) THEN StrLess(Tail(a), Tail(b))
    ELSE Ord(Head(a)) < Ord(Head(b))

\* sorted(dir.iterdir()), as the sequence of names
RECURSIVE Sorted(_)
Sorted(names) ==
    IF names = {} THEN <<>>
    ELSE LET least == CHOOSE n \in names : \A o \in names \ {n} : StrLess(n, o)
         IN  <<least>> \o Sorted(names \ {least})

\* the position of the last "." that starts a suffix, or 0 (pathlib: a leading
\* or a trailing dot starts no suffix)
SuffixAt(name) ==
    LET dots == {k \in 2..(Len(name) - 1) : name[k] = "."}
    IN  IF dots = {} THEN 0 ELSE CHOOSE k \in dots : \A j \in dots : j <= k

\* Path(name).suffix and Path(name).stem
Suffix(name) == IF SuffixAt(name) = 0 THEN <<>> ELSE SubSeq(name, SuffixAt(name), Len(name))
Stem(name) == IF SuffixAt(name) = 0 THEN name ELSE SubSeq(name, 1, SuffixAt(name) - 1)

DecryptedMark == <<"_", "d", "e", "c", "r", "y", "p", "t", "e", "d">>

\* s.replace(sub, "")
RECURSIVE RemoveSub(_, _)
RemoveSub(s, sub) ==
    IF Len(s) < Len(sub) THEN s
    ELSE IF SubSeq(s, 1, Len(sub)) = sub THEN RemoveSub(SubSeq(s, Len(sub) + 1, Len(s)), sub)
    ELSE <<Head(s)>> \o RemoveSub(Tail(s), sub)

\* file.stem.replace("_decrypted", "").split("-")[-1]
IndexTail(name) ==
    LET parts == Split(RemoveSub(Stem(name), DecryptedMark), "-")
    IN  parts[Len(parts)]

\* the bytes of the files named, in sequence
RECURSIVE ReadAll(_, _)
ReadAll(dir, names) ==
    IF Len(names) = 0 THEN <<>> ELSE dir[Head(names)] \o ReadAll(dir, Tail(names))

Range(seq) == {seq[k] : k \in 1..Len(seq)}

Remove(dir, names) == [n \in (DOMAIN dir) \ names |-> dir[n]]

WriteFile(dir, name, data) == (name :> data) @@ Remove(dir, {name})

\* drm.decrypt(path): the handler decrypts the whole file in place
DecryptData(data, drm) ==
    [k \in 1..Len(data) |-> [data[k] EXCEPT !.dec = Append(@, drm)]]

Max(a, b) == IF a >= b THEN a ELSE b

(***************************************************************************)
(* The state of one HLS.download_track call.                               *)
(***************************************************************************)

VARIABLES
    track,            \* the track: type, codec, drm (the session DRM list)
    env,              \* the collaborators: flags, licence callback, downloader, ffmpeg
    master,           \* master.segments, the segments of the fetched playlist
    segments,         \* the segments retained by OnSegmentFilter
    pc,               \* start, urls, download, walk, final, done, returned, exit, failed
    i,                \* the walk's segment index
    step,             \* the walk's position inside iteration i
    flushed,          \* whether the decrypt() call of the current step has returned
    discon_i,
    range_offset,
    map_data,         \* <<>> or <<init_section, bytes>>
    encryption_data,  \* <<>> or <<first_segment_i, key, drm>>
    session_drm,
    urls,
    downloader_,
    seg_dir,          \* the files of save_dir / "segments"
    save_dir,         \* the regular files of save_dir
    save_path,        \* what was written to save_path, <<>> before
    track_path,       \* track.path
    prog,             \* the last total, completed and downloaded given to progress()
    cancelled,        \* DOWNLOAD_CANCELLED
    log,              \* the calls made so far: decrypt, merge_discontinuity, get_drm, license
    err,              \* the exception that ended the call, "" if none
    call,             \* the arguments of a direct call of a static method
    ret               \* its result

inputVars == <<track, env, master>>
walkVars == <<i, step, flushed, discon_i, range_offset, map_data, encryption_data>>
fileVars == <<seg_dir, save_dir, save_path, track_path>>
planVars == <<segments, session_drm, urls, downloader_>>
callVars == <<call, ret>>
vars == <<inputVars, planVars, walkVars, fileVars, pc, prog, cancelled, log, err, callVars>>

NoDrm == [none |-> TRUE]
NoInit == [none |-> TRUE]
NoCall == [fn |-> "none"]

SegmentsDirName == <<"s", "e", "g", "m", "e", "n", "t", "s">>
BytesPrefix == <<"b", "y", "t", "e", "s", "=">>

segment == segments[i + 1]
total_segments == Len(segments)
is_last_segment == (i + 1) = total_segments

name_len_of_last_index == Len(IntToStr(total_segments - 1))

\* len(str(total_segments))
name_len == Len(IntToStr(total_segments))

\* f"{str(k).zfill(name_len)}{Path(uri).suffix}"
SegmentFileName(k, uri) == ZFill(IntToStr(k), name_len) \o Suffix(uri)
segment_file_path == SegmentFileName(i, segment.uri)

(***************************************************************************)
(* The inner functions of the walk: merge, decrypt, merge_discontinuity.   *)
(* They close over i, encryption_data and map_data.                        *)
(***************************************************************************)

MergedData_no_map(dir, via) == ReadAll(dir, via)

\* what merge(to, via, include_map_data=True) writes to `to`
MergedData(dir, via) ==
    (IF map_data # <<>> THEN map_data[2] ELSE <<>>) \o ReadAll(dir, via)

LastSegmentI_always_previous(include_this_segment) == Max(0, i - 1)

\* max(0, i - int(not include_this_segment))
LastSegmentI(include_this_segment) ==
    Max(0, i - (IF include_this_segment THEN 0 ELSE 1))

\* the segment files decrypt() collects for [first, last]
RunFiles(first, last) ==
    SelectSeq(Sorted(DOMAIN seg_dir),
              LAMBDA f : IsDigit(Stem(f))
                         /\ first <= DigitsToNat(Stem(f))
                         /\ DigitsToNat(Stem(f)) <= last)

decrypt_tolerates_missing(include_this_segment) ==
    LET drm == encryption_data[3]
        first_segment_i == encryption_data[1]
        last_segment_i == LastSegmentI(include_this_segment)
        segment_range == ZFill(IntToStr(first_segment_i), name_len) \o <<"-">>
                         \o ZFill(IntToStr(last_segment_i), name_len)
        merged_path == segment_range \o Suffix(segments[last_segment_i + 1].uri)
        decrypted_path == Stem(merged_path) \o DecryptedMark \o Suffix(merged_path)
        files == RunFiles(first_segment_i, last_segment_i)
        call_ == [ev |-> "decrypt", i |-> i, first |-> first_segment_i,
                  last |-> last_segment_i, drm |-> drm, files |-> files,
                  path |-> decrypted_path]
    IN  IF Len(files) = 0
        THEN [ok |-> FALSE, err |-> "ValueError", call |-> call_]
        ELSE [ok |-> TRUE, call |-> call_,
              seg_dir |-> WriteFile(Remove(seg_dir, Range(files)), decrypted_path,
                                    DecryptData(MergedData(seg_dir, files), drm))]

decrypt(include_this_segment) ==
    LET drm == encryption_data[3]
        first_segment_i == encryption_data[1]
        last_segment_i == LastSegmentI(include_this_segment)
        range_len == (last_segment_i - first_segment_i) + 1
        segment_range == ZFill(IntToStr(first_segment_i), name_len) \o <<"-">>
                         \o ZFill(IntToStr(last_segment_i), name_len)
        merged_path == segment_range \o Suffix(segments[last_segment_i + 1].uri)
        decrypted_path == Stem(merged_path) \o DecryptedMark \o Suffix(merged_path)
        files == RunFiles(first_segment_i, last_segment_i)
        call_ == [ev |-> "decrypt", i |-> i, first |-> first_segment_i,
                  last |-> last_segment_i, drm |-> drm, files |-> files,
                  path |-> decrypted_path]
    IN  IF Len(files) = 0 \/ Len(files) # range_len
        THEN [ok |-> FALSE, err |-> "ValueError", call |-> call_]
        ELSE [ok |-> TRUE, call |-> call_,
              seg_dir |-> WriteFile(Remove(seg_dir, Range(files)), decrypted_path,
                                    DecryptData(MergedData(seg_dir, files), drm))]

DisconFiles_reversed(last_segment_i) ==
    IF \E f \in DOMAIN seg_dir : ~IntParses(IndexTail(f))
    THEN Raise("ValueError")
    ELSE LET found == SelectSeq(Sorted(DOMAIN seg_dir),
                                LAMBDA f : ParseInt(IndexTail(f)) <= last_segment_i)
         IN  Ok([k \in 1..Len(found) |-> found[Len(found) - k + 1]])

\* the files merge_discontinuity() collects, or ValueError from int()
DisconFiles(last_segment_i) ==
    IF \E f \in DOMAIN seg_dir : ~IntParses(IndexTail(f))
    THEN Raise("ValueError")
    ELSE Ok(SelectSeq(Sorted(DOMAIN seg_dir),
                      LAMBDA f : ParseInt(IndexTail(f)) <= last_segment_i))

merge_discontinuity(include_this_segment) ==
    LET last_segment_i == LastSegmentI(include_this_segment)
        found == DisconFiles(last_segment_i)
    IN  IF ~found.ok THEN [ok |-> FALSE, err |-> found.err]
        ELSE LET files == found.val
                 to_path == ZFill(IntToStr(discon_i), name_len) \o Suffix(files[Len(files)])
                 call_ == [ev |-> "merge_discontinuity", i |-> i, last |-> last_segment_i,
                           files |-> files, enc |-> encryption_data,
                           to |-> IF Len(files) = 0 THEN <<>> ELSE to_path]
             IN  IF Len(files) = 0
                 THEN [ok |-> TRUE, call |-> call_, seg_dir |-> seg_dir, save_dir |-> save_dir]
                 ELSE [ok |-> TRUE, call |-> call_,
                       seg_dir |-> Remove(seg_dir, Range(files)),
                       save_dir |-> WriteFile(save_dir, to_path, MergedData(seg_dir, files))]

(***************************************************************************)
(* Phase 1: the playlist, the session DRM, the range headers, the download *)
(***************************************************************************)

Fail(e) == pc' = "failed" /\ err' = e

RECURSIVE Retained_without_asking_callable(_, _)
Retained_without_asking_callable(segs, k) ==
    IF Len(segs) = 0 THEN <<>>
    ELSE (IF k \in env.drop THEN <<>> ELSE <<Head(segs)>>)
         \o Retained_without_asking_callable(Tail(segs), k + 1)

\* [segment for segment in master.segments if not callable(filter) or not filter(segment)]
RECURSIVE Retained(_, _)
Retained(segs, k) ==
    IF Len(segs) = 0 THEN <<>>
    ELSE (IF env.has_filter /\ k \in env.drop THEN <<>> ELSE <<Head(segs)>>)
         \o Retained(Tail(segs), k + 1)

LicenseCall(at, drm, kid, ok) ==
    [ev |-> "license", i |-> at, drm |-> drm, kid |-> kid, ok |-> ok]

Start ==
    /\ pc = "start"
    /\ IF Len(master) = 0
       THEN \* sys.exit(1)
            /\ pc' = "exit" /\ err' = "SystemExit"
            /\ UNCHANGED <<planVars, prog, cancelled, log>>
       ELSE IF Len(track.drm) > 0 /\ track.drm[1].cls = "Widevine"
               /\ (~env.has_license_fn \/ env.license_raises)
       THEN \* except Exception: DOWNLOAD_CANCELLED.set(); raise
            /\ Fail(IF env.has_license_fn THEN "LicenseError" ELSE "ValueError")
            /\ cancelled' = TRUE
            /\ prog' = [prog EXCEPT !.downloaded = "[red]FAILED"]
            /\ log' = IF env.has_license_fn
                      THEN Append(log, LicenseCall(0 - 1, track.drm[1], <<>>, FALSE))
                      ELSE log
            /\ UNCHANGED planVars
       ELSE /\ session_drm' = IF Len(track.drm) > 0 THEN track.drm[1] ELSE NoDrm
            /\ segments' = Retained(master, 0)
            /\ log' = IF Len(track.drm) > 0 /\ track.drm[1].cls = "Widevine"
                      THEN Append(log, LicenseCall(0 - 1, track.drm[1], <<>>, TRUE))
                      ELSE log
            /\ prog' = [total |-> Len(Retained(master, 0)), completed |-> prog.completed,
                        downloaded |-> IF Len(track.drm) > 0 /\ track.drm[1].cls = "Widevine"
                                       THEN "[yellow]LICENSED" ELSE prog.downloaded]
            /\ pc' = "urls"
            /\ UNCHANGED <<urls, downloader_, cancelled, err>>
    /\ UNCHANGED <<inputVars, walkVars, fileVars, callVars>>

\* range_offset = byte_range.split("-")[0]
NextRangeOffset(byte_range) == PyStr(Split(byte_range, "-")[1])

RECURSIVE BuildUrlsFrom_keeps_downloader(_, _, _, _)
BuildUrlsFrom_keeps_downloader(segs, offset, dl, acc) ==
    IF Len(segs) = 0 THEN Ok([urls |-> acc, downloader_ |-> dl])
    ELSE LET seg == Head(segs)
         IN  IF Len(seg.byterange) > 0
             THEN LET byte_range == calculate_byte_range(seg.byterange, offset)
                  IN  IF ~byte_range.ok THEN byte_range
                      ELSE BuildUrlsFrom_keeps_downloader(
                               Tail(segs), NextRangeOffset(byte_range.val), dl,
                               Append(acc, [url |-> seg.uri,
                                            Range |-> BytesPrefix \o byte_range.val]))
             ELSE BuildUrlsFrom_keeps_downloader(Tail(segs), offset, dl,
                                                 Append(acc, [url |-> seg.uri, Range |-> <<>>]))

\* the loop over segments that fills urls
RECURSIVE BuildUrlsFrom(_, _, _, _)
BuildUrlsFrom(segs, offset, dl, acc) ==
    IF Len(segs) = 0 THEN Ok([urls |-> acc, downloader_ |-> dl])
    ELSE LET seg == Head(segs)
         IN  IF Len(seg.byterange) > 0
             THEN LET byte_range == calculate_byte_range(seg.byterange, offset)
                  IN  IF ~byte_range.ok THEN byte_range
                      ELSE BuildUrlsFrom(Tail(segs), NextRangeOffset(byte_range.val),
                                         IF dl = "aria2c" THEN "requests" ELSE dl,
                                         Append(acc, [url |-> seg.uri,
                                                      Range |-> BytesPrefix \o byte_range.val]))
             ELSE BuildUrlsFrom(Tail(segs), offset, dl,
                                Append(acc, [url |-> seg.uri, Range |-> <<>>]))

BuildUrls ==
    /\ pc = "urls"
    /\ LET built == BuildUrlsFrom(segments, PyInt(0), env.downloader, <<>>)
       IN  IF built.ok
           THEN /\ urls' = built.val.urls
                /\ downloader_' = built.val.downloader_
                /\ pc' = "download"
                /\ UNCHANGED err
           ELSE /\ Fail(built.err)
                /\ UNCHANGED <<urls, downloader_>>
    /\ UNCHANGED <<inputVars, segments, session_drm, walkVars, fileVars, prog, cancelled,
                   log, callVars>>

\* the downloader writes url number k to "{k:0<name_len>}{ext}"; then the walk's
\* variables are set up
Download ==
    /\ pc = "download"
    /\ seg_dir' = [n \in {SegmentFileName(k, urls[k + 1].url) :
                            k \in (0..(Len(urls) - 1)) \ env.lost}
                   |-> <<SegChunk(CHOOSE k \in 0..(Len(urls) - 1) :
                                      SegmentFileName(k, urls[k + 1].url) = n)>>]
    /\ prog' = [total |-> total_segments, completed |-> 0, downloaded |-> "Merging"]
    /\ discon_i' = 0
    /\ range_offset' = PyInt(0)
    /\ map_data' = <<>>
    /\ encryption_data' = IF session_drm # NoDrm THEN <<0, NoKey, session_drm>> ELSE <<>>
    /\ i' = 0
    /\ step' = "subtitle"
    /\ flushed' = FALSE
    /\ pc' = "walk"
    /\ UNCHANGED <<inputVars, planVars, save_dir, save_path, track_path, cancelled, log,
                   err, callVars>>

(***************************************************************************)
(* Phase 2: the walk over the segments.  One iteration runs the steps      *)
(* subtitle, discon, init, key, last in this order; a step that calls      *)
(* decrypt() first takes the Decrypt action.                               *)
(***************************************************************************)

\* key = HLS.get_supported_key(segment.keys)
SelectedKey == get_supported_key(segment.keys)

CallsDecrypt_not_on_key_change ==
    IF step = "discon"
    THEN segment.discontinuity /\ i # 0 /\ encryption_data # <<>>
    ELSE IF step = "last"
    THEN ~env.licence_only /\ is_last_segment /\ encryption_data # <<>>
    ELSE FALSE

CallsDecrypt_ignores_licence_only ==
    IF step = "discon"
    THEN segment.discontinuity /\ i # 0 /\ encryption_data # <<>>
    ELSE IF step = "key"
    THEN /\ Len(segment.keys) > 0
         /\ SelectedKey.ok
         /\ encryption_data # <<>>
         /\ encryption_data[2] # SelectedKey.val
         /\ i # 0
    ELSE IF step = "last"
    THEN is_last_segment /\ encryption_data # <<>>
    ELSE FALSE

\* whether the current step calls decrypt()
CallsDecrypt ==
    IF step = "discon"
    THEN segment.discontinuity /\ i # 0 /\ encryption_data # <<>>
    ELSE IF step = "key"
    THEN /\ Len(segment.keys) > 0
         /\ SelectedKey.ok
         /\ encryption_data # <<>>
         /\ encryption_data[2] # SelectedKey.val
         /\ i # 0
    ELSE IF step = "last"
    THEN ~env.licence_only /\ is_last_segment /\ encryption_data # <<>>
    ELSE FALSE

Decrypt ==
    /\ pc = "walk"
    /\ CallsDecrypt
    /\ ~flushed
    /\ LET d == decrypt(step = "last")
       IN  /\ log' = Append(log, [d.call EXCEPT !.ev = IF d.ok THEN "decrypt" ELSE "decrypt_failed"])
           /\ IF d.ok
              THEN /\ seg_dir' = d.seg_dir
                   /\ flushed' = TRUE
                   /\ UNCHANGED <<pc, err>>
              ELSE /\ Fail(d.err)
                   /\ UNCHANGED <<seg_dir, flushed>>
    /\ UNCHANGED <<inputVars, planVars, i, step, discon_i, range_offset, map_data,
                   encryption_data, save_dir, save_path, track_path, prog, cancelled,
                   callVars>>

\* try_ensure_utf8(data): valid UTF-8 is returned as it is, CP-1252 or a detected
\* encoding is re-encoded, data of no detectable encoding is returned as it is
try_ensure_utf8(data) ==
    IF env.encoding \in {"cp1252", "detected"}
    THEN [k \in 1..Len(data) |-> [data[k] EXCEPT !.ops = Append(@, "utf8")]]
    ELSE data

\* .replace("&lrm;", ...).replace("&rlm;", ...): changes data that has the entities
Unescaped(data) ==
    IF env.entities
    THEN [k \in 1..Len(data) |-> [data[k] EXCEPT !.ops = Append(@, "unescape")]]
    ELSE data

\* what the subtitle step writes back to the segment file
Normalised(data) ==
    IF track.codec \in {"fVTT", "fTTML"}
    THEN try_ensure_utf8(data)
    ELSE Unescaped(try_ensure_utf8(data))

SubtitleNormalise ==
    /\ pc = "walk"
    /\ step = "subtitle"
    /\ IF track.type = "Subtitle"
       THEN IF segment_file_path \in DOMAIN seg_dir
            THEN /\ seg_dir' = [seg_dir EXCEPT ![segment_file_path] = Normalised(@)]
                 /\ step' = "discon"
                 /\ UNCHANGED <<pc, err>>
            ELSE /\ Fail("FileNotFoundError")
                 /\ UNCHANGED <<seg_dir, step>>
       ELSE /\ step' = "discon"
            /\ UNCHANGED <<seg_dir, pc, err>>
    /\ UNCHANGED <<inputVars, planVars, i, flushed, discon_i, range_offset, map_data,
                   encryption_data, save_dir, save_path, track_path, prog, cancelled, log,
                   callVars>>

Rebased_rebuilds_handler ==
    IF encryption_data # <<>> /\ encryption_data[2] # NoKey
    THEN <<i, encryption_data[2], get_drm(encryption_data[2]).val>>
    ELSE <<>>

\* the context after a discontinuity: rebased to i when there is one
Rebased == IF encryption_data # <<>>
           THEN <<i, encryption_data[2], encryption_data[3]>>
           ELSE encryption_data

DiscontinuityBoundary ==
    /\ pc = "walk"
    /\ step = "discon"
    /\ CallsDecrypt => flushed
    /\ IF segment.discontinuity /\ i # 0
       THEN LET m == merge_discontinuity(FALSE)
            IN  IF m.ok
                THEN /\ seg_dir' = m.seg_dir
                     /\ save_dir' = m.save_dir
                     /\ log' = Append(log, m.call)
                     /\ discon_i' = discon_i + 1
                     /\ range_offset' = PyInt(0)
                     /\ map_data' = <<>>
                     /\ encryption_data' = Rebased
                     /\ step' = "init"
                     /\ flushed' = FALSE
                     /\ UNCHANGED <<pc, err>>
                ELSE /\ Fail(m.err)
                     /\ UNCHANGED <<seg_dir, save_dir, log, discon_i, range_offset,
                                    map_data, encryption_data, step, flushed>>
       ELSE /\ step' = "init"
            /\ flushed' = FALSE
            /\ UNCHANGED <<seg_dir, save_dir, log, discon_i, range_offset, map_data,
                           encryption_data, pc, err>>
    /\ UNCHANGED <<inputVars, planVars, i, save_path, track_path, prog, cancelled,
                   callVars>>

InitSectionUpdate ==
    /\ pc = "walk"
    /\ step = "init"
    /\ IF segment.init_section # NoInit
          /\ (map_data = <<>> \/ segment.init_section # map_data[1])
       THEN LET init_byte_range ==
                    IF Len(segment.init_section.byterange) > 0
                    THEN calculate_byte_range(segment.init_section.byterange, range_offset)
                    ELSE Ok(<<>>)
            IN  IF ~init_byte_range.ok
                THEN /\ Fail(init_byte_range.err)
                     /\ UNCHANGED <<range_offset, map_data, step, log>>
                ELSE IF ~env.init_ok
                THEN \* res.raise_for_status()
                     /\ Fail("HTTPError")
                     /\ range_offset' = IF Len(segment.init_section.byterange) > 0
                                        THEN NextRangeOffset(init_byte_range.val)
                                        ELSE range_offset
                     /\ UNCHANGED <<map_data, step, log>>
                ELSE /\ range_offset' = IF Len(segment.init_section.byterange) > 0
                                        THEN NextRangeOffset(init_byte_range.val)
                                        ELSE range_offset
                     /\ map_data' = <<segment.init_section,
                                      <<InitChunk(segment.init_section.uri)>>>>
                     /\ log' = Append(log, [ev |-> "get_init", i |-> i,
                                            init |-> segment.init_section,
                                            Range |-> IF Len(init_byte_range.val) > 0
                                                      THEN BytesPrefix \o init_byte_range.val
                                                      ELSE <<>>])
                     /\ step' = "key"
                     /\ UNCHANGED <<pc, err>>
       ELSE /\ step' = "key"
            /\ UNCHANGED <<range_offset, map_data, log, pc, err>>
    /\ UNCHANGED <<inputVars, planVars, i, flushed, discon_i, encryption_data, fileVars,
                   prog, cancelled, callVars>>

TrackKid_without_init == <<>>

\* track.get_key_id(map_data[1]) if map_data else None
TrackKid == IF map_data # <<>> THEN <<"kid", map_data[2][1].id>> ELSE <<>>

KeyUpdate ==
    /\ pc = "walk"
    /\ step = "key"
    /\ CallsDecrypt => flushed
    /\ IF Len(segment.keys) = 0
       THEN /\ step' = "last"
            /\ UNCHANGED <<encryption_data, log, prog, pc, err>>
       ELSE IF ~SelectedKey.ok
       THEN /\ Fail(SelectedKey.err)
            /\ UNCHANGED <<encryption_data, log, prog, step>>
       ELSE LET key == SelectedKey.val
                drm == get_drm(key)
            IN  IF key = NoKey
                THEN /\ encryption_data' = <<>>
                     /\ step' = "last"
                     /\ UNCHANGED <<log, prog, pc, err>>
                ELSE IF encryption_data # <<>> /\ encryption_data[2] = key
                THEN /\ step' = "last"
                     /\ UNCHANGED <<encryption_data, log, prog, pc, err>>
                ELSE IF ~drm.ok
                THEN /\ Fail(drm.err)
                     /\ UNCHANGED <<encryption_data, log, prog, step>>
                ELSE IF drm.val.cls = "Widevine" /\ ~env.has_license_fn
                THEN \* license_widevine is None: calling it is a TypeError
                     /\ Fail("TypeError")
                     /\ prog' = [prog EXCEPT !.downloaded = "LICENSING"]
                     /\ log' = Append(log, [ev |-> "get_drm", i |-> i, key |-> key,
                                            drm |-> drm.val])
                     /\ UNCHANGED <<encryption_data, step>>
                ELSE IF drm.val.cls = "Widevine" /\ env.license_raises
                THEN /\ Fail("LicenseError")
                     /\ prog' = [prog EXCEPT !.downloaded = "LICENSING"]
                     /\ log' = log \o <<[ev |-> "get_drm", i |-> i, key |-> key,
                                         drm |-> drm.val],
                                        LicenseCall(i, drm.val, TrackKid, FALSE)>>
                     /\ UNCHANGED <<encryption_data, step>>
                ELSE /\ encryption_data' = <<i, key, drm.val>>
                     /\ log' = log \o <<[ev |-> "get_drm", i |-> i, key |-> key,
                                         drm |-> drm.val]>>
                                   \o (IF drm.val.cls = "Widevine"
                                       THEN <<LicenseCall(i, drm.val, TrackKid, TRUE)>>
                                       ELSE <<>>)
                     /\ prog' = IF drm.val.cls = "Widevine"
                                THEN [prog EXCEPT !.downloaded = "[yellow]LICENSED"]
                                ELSE prog
                     /\ step' = "last"
                     /\ UNCHANGED <<pc, err>>
    /\ flushed' = FALSE
    /\ UNCHANGED <<inputVars, planVars, i, discon_i, range_offset, map_data, fileVars,
                   cancelled, callVars>>

\* the end of iteration i: the licence-only check, the last segment's merge, the
\* progress advance, and the loop's step to i + 1 or out of the loop
LastSegment ==
    /\ pc = "walk"
    /\ step = "last"
    /\ CallsDecrypt => flushed
    /\ IF env.licence_only
       THEN \* continue
            /\ UNCHANGED <<seg_dir, save_dir, log, prog>>
            /\ IF is_last_segment
               THEN pc' = "final" /\ UNCHANGED <<i, step>>
               ELSE i' = i + 1 /\ step' = "subtitle" /\ UNCHANGED pc
            /\ UNCHANGED err
       ELSE IF is_last_segment
       THEN LET m == merge_discontinuity(TRUE)
            IN  IF m.ok
                THEN /\ seg_dir' = m.seg_dir
                     /\ save_dir' = m.save_dir
                     /\ log' = Append(log, m.call)
                     /\ prog' = [prog EXCEPT !.completed = @ + 1]
                     /\ pc' = "final"
                     /\ UNCHANGED <<i, step, err>>
                ELSE /\ Fail(m.err)
                     /\ UNCHANGED <<seg_dir, save_dir, log, prog, i, step>>
       ELSE /\ prog' = [prog EXCEPT !.completed = @ + 1]
            /\ i' = i + 1
            /\ step' = "subtitle"
            /\ UNCHANGED <<seg_dir, save_dir, log, pc, err>>
    /\ flushed' = FALSE
    /\ UNCHANGED <<inputVars, planVars, discon_i, range_offset, map_data, encryption_data,
                   save_path, track_path, cancelled, callVars>>

(***************************************************************************)
(* The final merge of the discontinuity files, and the end of the call.    *)
(***************************************************************************)

NoFile == [tool |-> "none"]

\* HLS.merge_segments(sorted(list(save_dir.iterdir())), save_path): the listing given
\* to ffmpeg's concat demuxer, and the data of the regular files it names
FfmpegConcat ==
    [tool |-> "ffmpeg",
     listing |-> Sorted((DOMAIN save_dir) \cup {SegmentsDirName}),
     data |-> ReadAll(save_dir, Sorted(DOMAIN save_dir))]

\* the binary concatenation of the regular files of save_dir
PlainConcat ==
    [tool |-> "concat",
     listing |-> Sorted(DOMAIN save_dir),
     data |-> ReadAll(save_dir, Sorted(DOMAIN save_dir))]

FinalMerge_removes_directory_first ==
    /\ pc = "final"
    /\ IF env.licence_only
       THEN /\ pc' = "returned"
            /\ UNCHANGED <<fileVars, prog, log, err>>
       ELSE IF track.type \in {"Video", "Audio"} /\ ~env.ffmpeg
       THEN /\ Fail("EnvironmentError")
            /\ prog' = [prog EXCEPT !.downloaded = "Merging"]
            /\ save_dir' = <<>>
            /\ seg_dir' = <<>>
            /\ log' = Append(log, [ev |-> "rmtree", i |-> i])
            /\ UNCHANGED <<save_path, track_path>>
       ELSE /\ save_path' = IF track.type \in {"Video", "Audio"}
                            THEN FfmpegConcat ELSE PlainConcat
            /\ save_dir' = <<>>
            /\ seg_dir' = <<>>
            /\ prog' = [prog EXCEPT !.downloaded = "Downloaded"]
            /\ track_path' = "save_path"
            /\ log' = log \o <<[ev |-> "rmtree", i |-> i],
                                [ev |-> "write_save_path", i |-> i],
                                [ev |-> "set_track_path", i |-> i],
                                [ev |-> "OnDownloaded", i |-> i]>>
            /\ pc' = "done"
            /\ UNCHANGED err
    /\ UNCHANGED <<inputVars, planVars, walkVars, cancelled, callVars>>

FinalMerge ==
    /\ pc = "final"
    /\ IF env.licence_only
       THEN /\ pc' = "returned"
            /\ UNCHANGED <<fileVars, prog, log, err>>
       ELSE IF track.type \in {"Video", "Audio"} /\ ~env.ffmpeg
       THEN /\ Fail("EnvironmentError")
            /\ prog' = [prog EXCEPT !.downloaded = "Merging"]
            /\ UNCHANGED <<fileVars, log>>
       ELSE /\ save_path' = IF track.type \in {"Video", "Audio"}
                            THEN FfmpegConcat ELSE PlainConcat
            \* shutil.rmtree(save_dir)
            /\ save_dir' = <<>>
            /\ seg_dir' = <<>>
            /\ prog' = [prog EXCEPT !.downloaded = "Downloaded"]
            /\ track_path' = "save_path"
            /\ log' = log \o <<[ev |-> "write_save_path", i |-> i],
                                [ev |-> "rmtree", i |-> i],
                                [ev |-> "set_track_path", i |-> i],
                                [ev |-> "OnDownloaded", i |-> i]>>
            /\ pc' = "done"
            /\ UNCHANGED err
    /\ UNCHANGED <<inputVars, planVars, walkVars, cancelled, callVars>>

(***************************************************************************)
(* Tracks, collaborators and playlists.                                    *)
(***************************************************************************)

Track(type, codec, drm) == [type |-> type, codec |-> codec, drm |-> drm]

DefaultEnv ==
    [licence_only |-> FALSE,      \* DOWNLOAD_LICENCE_ONLY
     has_license_fn |-> TRUE,     \* license_widevine is given
     license_raises |-> FALSE,    \* license_widevine raises
     ffmpeg |-> TRUE,             \* get_binary_path("ffmpeg") finds it
     downloader |-> "aria2c",     \* the configured downloader
     lost |-> {},                 \* the urls whose file the downloader did not write
     init_ok |-> TRUE,            \* the init section request succeeds
     has_filter |-> FALSE,        \* track.OnSegmentFilter is callable
     drop |-> {},                 \* the segments OnSegmentFilter returns true for
     encoding |-> "cp1252",       \* the encoding of the segment data
     entities |-> TRUE]           \* the segment data has &lrm; or &rlm;

Segment(uri, byterange, init_section, keys, discontinuity) ==
    [uri |-> uri, byterange |-> byterange, init_section |-> init_section,
     keys |-> keys, discontinuity |-> discontinuity]

InitSection(uri, byterange) == [uri |-> uri, byterange |-> byterange]

TsUri == <<"s", ".", "t", "s">>

K1 == Key("AES-128", NoneStr, <<"https://keys/1">>)
K2 == Key("ISO-23001-7", NoneStr, <<"data:text/plain;base64", "kid2">>)
K3 == Key("AES-128", NoneStr, <<"https://keys/3">>)
KNone == Key("NONE", NoneStr, <<>>)

SessionWidevine == Drm("Widevine", "PSSH", <<"session">>)

VideoTrack == Track("Video", "AVC", <<>>)
VideoTrackWithSessionDrm == Track("Video", "AVC", <<SessionWidevine>>)
SubtitleTrack == Track("Subtitle", "VTT", <<>>)

Init1 == InitSection(1, <<>>)

SeqsUpTo(S, n) == UNION {[1..k -> S] : k \in 1..n}

\* the variables of a call that has not started
Fresh ==
    /\ segments = <<>>
    /\ session_drm = NoDrm
    /\ urls = <<>>
    /\ downloader_ = env.downloader
    /\ i = 0
    /\ step = "subtitle"
    /\ flushed = FALSE
    /\ discon_i = 0
    /\ range_offset = PyInt(0)
    /\ map_data = <<>>
    /\ encryption_data = <<>>
    /\ seg_dir = <<>>
    /\ save_dir = <<>>
    /\ save_path = NoFile
    /\ track_path = ""
    /\ prog = [total |-> 0, completed |-> 0, downloaded |-> ""]
    /\ cancelled = FALSE
    /\ log = <<>>
    /\ err = ""
    /\ ret = NoCall

\* the state before download_track runs
InitCall(tracks, envs, playlists) ==
    /\ track \in tracks
    /\ env \in envs
    /\ master \in playlists
    /\ Fresh
    /\ pc = "start"
    /\ call = NoCall

\* the state before a direct call of a static method
InitStatic(calls) ==
    /\ track = VideoTrack
    /\ env = DefaultEnv
    /\ master = <<>>
    /\ Fresh
    /\ pc = "call"
    /\ call \in calls

MaxSegs == 2

\* every playlist of up to MaxSegs segments, each with or without the discontinuity
\* flag, an init section and a key block
FreeSegments ==
    {Segment(TsUri, <<>>, m, k, d) :
        m \in {NoInit, Init1}, k \in {<<>>, <<K1>>, <<K2>>, <<KNone>>}, d \in BOOLEAN}

\* the playlist of n segments whose key blocks start at the positions of `starts`
\* and whose discontinuity flags are at `discs`; with `carried`, every segment after
\* a key block repeats it (the keys in effect), else only the segment at the tag has it
KeysAt(starts, carried, pos) ==
    IF pos \in DOMAIN starts THEN starts[pos]
    ELSE IF carried /\ \E q \in DOMAIN starts : q < pos
    THEN starts[CHOOSE q \in DOMAIN starts : q < pos /\ \A r \in DOMAIN starts : r < pos => r <= q]
    ELSE <<>>

Scheduled(n, starts, discs, carried) ==
    [k \in 1..n |-> Segment(TsUri, <<>>, NoInit, KeysAt(starts, carried, k - 1), (k - 1) \in discs)]

MaxScenarioSegs == 6

\* S1: one AES-128 key from segment 0; S2: a key change at index 2; S4: a plaintext
\* gap from index 2 to index 3; S5: a discontinuity at index 3 under one key
ScenarioS1 == {Scheduled(3, (0 :> <<K1>>), {}, c) : c \in BOOLEAN}
ScenarioS2 == {Scheduled(4, (0 :> <<K1>>) @@ (2 :> <<K3>>), {}, c) : c \in BOOLEAN}
ScenarioS4 == {Scheduled(n, (0 :> <<K1>>) @@ (2 :> <<KNone>>) @@ (4 :> <<K1>>), {}, c) :
                  n \in 5..MaxScenarioSegs, c \in BOOLEAN}
ScenarioS5 == {Scheduled(6, (0 :> <<K1>>), {3}, c) : c \in BOOLEAN}


\* a group of a decrypted run and raw segments, a discontinuity at index 3, then a
\* raw segment and a run
ScenarioMixed ==
    {Scheduled(5, (0 :> <<K1>>) @@ (1 :> <<KNone>>) @@ (4 :> <<K1>>), {3}, c) : c \in BOOLEAN}

MaxWideSegs == 10

\* enough segments for indices of two digits
ScenarioWide ==
    {Scheduled(MaxWideSegs, (0 :> <<K1>>) @@ (2 :> <<KNone>>) @@ (4 :> <<K1>>), {5, 8}, c) :
        c \in BOOLEAN}

Init2 == InitSection(2, <<>>)

\* two or three segments, each declaring one of two init sections, under K1 or K3
InitChangePlaylists ==
    UNION {[1..n -> {Segment(TsUri, <<>>, m, <<k>>, FALSE) : m \in {Init1, Init2}, k \in {K1, K3}}] :
              n \in 2..3}

ScenarioPlaylists ==
    ScenarioS1 \cup ScenarioS2 \cup ScenarioS4 \cup ScenarioS5 \cup ScenarioMixed
    \cup ScenarioWide \cup InitChangePlaylists

R100at0 == <<"1", "0", "0", "@", "0">>
R200 == <<"2", "0", "0">>
R50at500 == <<"5", "0", "@", "5", "0", "0">>

MaxRangeSegs == 3

\* every playlist of up to MaxRangeSegs segments, each with or without a byterange
RangePlaylists ==
    SeqsUpTo({Segment(TsUri, r, NoInit, <<>>, FALSE) : r \in {<<>>, R100at0, R200, R50at500}},
             MaxRangeSegs)

Init == InitCall({VideoTrack, VideoTrackWithSessionDrm}, {DefaultEnv},
                 SeqsUpTo(FreeSegments, MaxSegs) \cup ScenarioPlaylists \cup RangePlaylists)

Next ==
    \/ Start
    \/ BuildUrls
    \/ Download
    \/ SubtitleNormalise
    \/ Decrypt
    \/ DiscontinuityBoundary
    \/ InitSectionUpdate
    \/ KeyUpdate
    \/ LastSegment
    \/ FinalMerge

Spec == Init /\ [][Next]_vars

(***************************************************************************)
(* download_track with collaborators that fail or are configured otherwise *)
(***************************************************************************)

\* the default collaborators, and each way one of them differs
Envs ==
    {DefaultEnv,
     [DefaultEnv EXCEPT !.licence_only = TRUE],
     [DefaultEnv EXCEPT !.license_raises = TRUE],
     [DefaultEnv EXCEPT !.has_license_fn = FALSE],
     [DefaultEnv EXCEPT !.ffmpeg = FALSE],
     [DefaultEnv EXCEPT !.init_ok = FALSE],
     [DefaultEnv EXCEPT !.lost = {0}],
     [DefaultEnv EXCEPT !.lost = {1}],
     [DefaultEnv EXCEPT !.downloader = "requests"]}

MaxEnvSegs == 2

EnvSegments ==
    {Segment(TsUri, <<>>, NoInit, k, d) : k \in {<<>>, <<K1>>, <<K2>>}, d \in BOOLEAN}
    \cup {Segment(TsUri, <<>>, Init1, k, FALSE) : k \in {<<>>, <<K2>>}}

\* byteranges that need no carried offset, on some of the segments
EnvRangeSegments ==
    {Segment(TsUri, r, NoInit, <<>>, FALSE) : r \in {<<>>, R100at0, R200, R50at500}}

EnvPlaylists == SeqsUpTo(EnvSegments, MaxEnvSegs) \cup SeqsUpTo(EnvRangeSegments, MaxEnvSegs)

InitEnv == InitCall({VideoTrack, VideoTrackWithSessionDrm, SubtitleTrack}, Envs, EnvPlaylists)

EnvSpec == InitEnv /\ [][Next]_vars

\* DOWNLOAD_CANCELLED is set by another download of the process
CancelElsewhere ==
    /\ pc \in {"start", "urls", "download", "walk", "final"}
    /\ ~cancelled
    /\ cancelled' = TRUE
    /\ UNCHANGED <<inputVars, planVars, walkVars, fileVars, pc, prog, log, err, callVars>>

MaxCancelSegs == 2

CancelSegments == {Segment(TsUri, <<>>, NoInit, k, d) : k \in {<<>>, <<K1>>}, d \in BOOLEAN}

InitCancel == InitCall({VideoTrack}, {DefaultEnv}, SeqsUpTo(CancelSegments, MaxCancelSegs))

NextCancel == Next \/ CancelElsewhere

CancelSpec == InitCancel /\ [][NextCancel]_vars

\* a text track with a fragmented codec
FragmentedSubtitleTrack == Track("Subtitle", "fVTT", <<>>)

MaxTextSegs == 2

\* text tracks with a plain and with a fragmented codec, over data in each encoding
TextSpec ==
    /\ InitCall({VideoTrack, SubtitleTrack, FragmentedSubtitleTrack,
                 Track("Subtitle", "fTTML", <<>>)},
                {[DefaultEnv EXCEPT !.encoding = e, !.entities = h] :
                    e \in {"utf8", "cp1252", "detected", "unknown"}, h \in BOOLEAN},
                SeqsUpTo(CancelSegments, MaxTextSegs))
    /\ [][Next]_vars

MaxFilterSegs == 3

\* playlists whose segments have a URI of their own, with or without a key block,
\* under every OnSegmentFilter that retains a segment, and without one
InitFilter ==
    /\ InitCall({VideoTrack},
                {[DefaultEnv EXCEPT !.has_filter = f, !.drop = d] :
                    f \in BOOLEAN, d \in SUBSET (0..(MaxFilterSegs - 1))},
                UNION {{[k \in 1..n |->
                            Segment(<<"s", DigitChars[k], ".", "t", "s">>, <<>>, NoInit,
                                    keys[k], FALSE)] :
                           keys \in [1..n -> {<<>>, <<K1>>}]} : n \in 1..MaxFilterSegs})
    /\ Len(Retained(master, 0)) > 0

FilterSpec == InitFilter /\ [][Next]_vars

(***************************************************************************)
(* Direct calls of the static methods, over bounded sets of arguments.     *)
(***************************************************************************)

staticFrame == <<inputVars, planVars, walkVars, fileVars, prog, cancelled, log, err, call>>

\* a token of an EXT-X-BYTERANGE value: an integer, or text int() rejects
IntToken(n) == [valid |-> TRUE, n |-> n, text |-> IntToStr(n)]
JunkToken(text) == [valid |-> FALSE, n |-> 0, text |-> text]

RangeTokens ==
    {IntToken(n) : n \in {0, 50, 100, 200, 500, 0 - 5}}
    \cup {JunkToken(<<>>), JunkToken(<<"x">>), JunkToken(<<"1", "x">>)}

MaxRangeTokens == 3

TokenTexts(toks) == [k \in 1..Len(toks) |-> toks[k].text]

\* calculate_byte_range("@".join(tokens), fallback_offset); the tokens are kept
\* beside the string they were joined to
ByteRangeCalls ==
    {[fn |-> "calculate_byte_range", tokens |-> toks,
      m3u_range |-> Join(TokenTexts(toks), "@"), fallback_offset |-> f] :
        toks \in SeqsUpTo(RangeTokens, MaxRangeTokens),
        f \in {PyInt(0), PyInt(100), PyInt(300), PyStr(<<"0">>)}}

CallCalculateByteRange ==
    /\ pc = "call"
    /\ call.fn = "calculate_byte_range"
    /\ ret' = calculate_byte_range(call.m3u_range, call.fallback_offset)
    /\ pc' = "returned"
    /\ UNCHANGED staticFrame

ByteRangeSpec == InitStatic(ByteRangeCalls) /\ [][CallCalculateByteRange]_vars

\* the key descriptors: every method with every keyformat
KeyDescriptors ==
    {Key(m, f, <<"uri">>) :
        m \in {"NONE", "AES-128", "ISO-23001-7", "SAMPLE-AES"},
        f \in {NoneStr, "", WidevineUrn, WidevineUrnMixed, FairPlayFormat}}

MaxKeys == 3

KeyCalls ==
    {[fn |-> "get_supported_key", keys |-> keys] : keys \in SeqsUpTo(KeyDescriptors, MaxKeys)}

CallGetSupportedKey ==
    /\ pc = "call"
    /\ call.fn = "get_supported_key"
    /\ ret' = get_supported_key(call.keys)
    /\ pc' = "returned"
    /\ UNCHANGED staticFrame

\* drm = HLS.get_drm(key) with the key get_supported_key returned, as the walk calls it
CallGetDrm ==
    /\ pc = "returned"
    /\ call.fn = "get_supported_key"
    /\ ret.ok
    /\ ret.val # NoKey
    /\ call' = [fn |-> "get_drm", key |-> ret.val, keys |-> call.keys]
    /\ ret' = get_drm(ret.val)
    /\ pc' = "returned"
    /\ UNCHANGED <<inputVars, planVars, walkVars, fileVars, prog, cancelled, log, err>>

KeySpec == InitStatic(KeyCalls) /\ [][CallGetSupportedKey \/ CallGetDrm]_vars

(***************************************************************************)
(* HLS.get_all_drm(keys) and HLS.to_tracks(language)                       *)
(***************************************************************************)

\* the handlers of the keys get_drm accepts, in the order of the keys
RECURSIVE DrmObjects(_)
DrmObjects(keys) ==
    IF Len(keys) = 0 THEN <<>>
    ELSE LET drm == get_drm(Head(keys))
         IN  (IF drm.ok THEN <<drm.val>> ELSE <<>>) \o DrmObjects(Tail(keys))

get_all_drm_stops_at_unsupported(keys) ==
    LET none == AnyMethodNone(keys)
    IN  IF ~none.ok THEN none
        ELSE IF none.val THEN Ok(<<>>)
        ELSE IF \E k \in 1..Len(keys) : ~get_drm(keys[k]).ok THEN Raise("NotImplementedError")
        ELSE Ok(DrmObjects(keys))

get_all_drm(keys) ==
    LET none == AnyMethodNone(keys)
    IN  IF ~none.ok THEN none
        ELSE IF none.val THEN Ok(<<>>)
        ELSE LET drm_objects == DrmObjects(keys)
             IN  \* if not drm_objects and unsupported_keys
                 IF Len(drm_objects) = 0 /\ Len(keys) > 0
                 THEN Raise("NotImplementedError")
                 ELSE Ok(drm_objects)

\* an optional language: None, or the text of a str or of a Language
LangNone == [none |-> TRUE, s |-> <<>>]
Lang(s) == [none |-> FALSE, s |-> s]

\* s.strip()
RECURSIVE Strip(_)
Strip(s) ==
    IF Len(s) = 0 THEN s
    ELSE IF Head(s) = " " THEN Strip(Tail(s))
    ELSE IF s[Len(s)] = " " THEN Strip(SubSeq(s, 1, Len(s) - 1))
    ELSE s

StartsWith(s, prefix) == Len(s) >= Len(prefix) /\ SubSeq(s, 1, Len(prefix)) = prefix

\* str(x): "None" for None
StrOf(x) == IF x.none THEN <<"N", "o", "n", "e">> ELSE x.s

TagEn == <<"e", "n">>
TagUnd == <<"u", "n", "d">>

\* langcodes.tag_is_valid on the tags of the model: "", "None" and "x!" are not tags
tag_is_valid(option) == option \in {TagEn, <<"E", "N">>, <<"e", "n", "-", "U", "S">>, <<"f", "r">>, TagUnd, <<"u", "n", "d", "-", "L", "a", "t", "n">>}

\* Language.get(option): the normalised tag
Language_get(option) == IF option = <<"E", "N">> THEN TagEn ELSE option

\* langcodes.closest_match(desired, supported)[1] for the tags of the model: 0 for the
\* tag itself and between en and en-US, 1000 when nothing is within its max_distance
closest_match_distance(desired, supported) ==
    IF \E k \in 1..Len(supported) :
           \/ Language_get(supported[k]) = desired
           \/ {Language_get(supported[k]), desired} = {TagEn, <<"e", "n", "-", "U", "S">>}
    THEN 0
    ELSE 1000

LANGUAGE_MAX_DISTANCE == 5

\* utilities.is_close_match(language, languages)
is_close_match(language, languages) ==
    LET given == SelectSeq(languages, LAMBDA x : ~x.none /\ Len(x.s) > 0)
    IN  IF Len(given) = 0 THEN FALSE
        ELSE closest_match_distance(language, [k \in 1..Len(given) |-> StrOf(given[k])])
                 <= LANGUAGE_MAX_DISTANCE

\* option = (str(x) or "").strip(); tag_is_valid(option) and not option.startswith("und")
LangOption(x) == Strip(StrOf(x))

Qualifies(x) == tag_is_valid(LangOption(x)) /\ ~StartsWith(LangOption(x), TagUnd)

track_lang_fallback_first(media_language, language) ==
    IF Qualifies(language) THEN Ok(Language_get(LangOption(language)))
    ELSE IF Qualifies(media_language) THEN Ok(Language_get(LangOption(media_language)))
    ELSE Raise("none")

\* next((Language.get(option) for x in (media.language, language) ...), None)
track_lang(media_language, language) ==
    IF Qualifies(media_language) THEN Ok(Language_get(LangOption(media_language)))
    ELSE IF Qualifies(language) THEN Ok(Language_get(LangOption(language)))
    ELSE Raise("none")

\* the message of the ValueError when no language is derived
LanguageErrorMsg(language) ==
    "Language information could not be derived for a media."
    \o (IF language.none THEN " No fallback language was provided"
        ELSE IF ~tag_is_valid(LangOption(language)) \/ StartsWith(StrOf(language), TagUnd)
        THEN " The fallback language provided is also invalid"
        ELSE "")

ManifestTrack(type, codec, language, is_original_lang, drm, joc) ==
    [type |-> type, codec |-> codec, language |-> language,
     is_original_lang |-> is_original_lang, drm |-> drm, joc |-> joc]

\* the track of an EXT-X-MEDIA entry [type, uri, language, group_id, channels]; the
\* variants are EXT-X-STREAM-INF entries [video, audio]: whether the codecs have a video
\* codec, and the audio group
MediaTrack(playlists, media, language, drm) ==
    LET lang == track_lang(media.language, language)
        \* audio_codecs_by_group_id.get(media.group_id)
        group_codec ==
            IF \E k \in 1..Len(playlists) :
                   Truthy(playlists[k].audio) /\ playlists[k].audio = media.group_id
            THEN "from_codecs" ELSE NoneStr
        \* int(media.channels.split("/JOC")[0]) when the channels end with "/JOC"
        joc == IF media.type = "AUDIO" /\ media.channels = "16/JOC" THEN 16 ELSE 0
    IN  IF ~lang.ok THEN RaiseMsg("ValueError", LanguageErrorMsg(language))
        ELSE Ok(ManifestTrack(
                 IF media.type = "AUDIO" THEN "Audio" ELSE "Subtitle",
                 IF media.type = "AUDIO" THEN group_codec ELSE "WebVTT",
                 Lang(lang.val),
                 \* language and is_close_match(track_lang, [language])
                 ~language.none /\ Len(language.s) > 0
                     /\ is_close_match(lang.val, <<language>>),
                 IF media.type = "AUDIO" THEN drm ELSE NoDrm,
                 joc))

\* the loop over manifest.media: entries without a uri are skipped, the first entry
\* without a language raises
RECURSIVE MediaTracks(_, _, _, _)
MediaTracks(playlists, media, language, drm) ==
    IF Len(media) = 0 THEN Ok(<<>>)
    ELSE IF ~Truthy(Head(media).uri) THEN MediaTracks(playlists, Tail(media), language, drm)
    ELSE LET t == MediaTrack(playlists, Head(media), language, drm)
             rest == MediaTracks(playlists, Tail(media), language, drm)
         IN  IF ~t.ok THEN t
             ELSE IF ~rest.ok THEN rest
             ELSE Ok(<<t.val>> \o rest.val)

to_tracks(session_keys, playlists, media, language) ==
    LET session == get_all_drm(session_keys)
    IN  IF ~session.ok THEN session
        ELSE LET rest == MediaTracks(playlists, media, language, session.val)
             IN  IF ~rest.ok THEN rest
                 ELSE Ok([k \in 1..Len(playlists) |->
                             ManifestTrack(IF playlists[k].video THEN "Video" ELSE "Audio",
                                           "from_codecs", language, TRUE, session.val, 0)]
                         \o rest.val)

MaxSessionKeys == 2
MaxMedia == 1

\* master playlists that differ in their session keys, and master playlists that differ
\* in the languages of their media
ToTracksCalls ==
    {[fn |-> "to_tracks", session_keys |-> keys,
      playlists |-> <<[video |-> TRUE, audio |-> "aac"]>>,
      media |-> <<[type |-> "AUDIO", uri |-> "a.m3u8", language |-> Lang(TagEn),
                   group_id |-> "aac", channels |-> ch],
                  [type |-> "SUBTITLES", uri |-> "s.m3u8", language |-> Lang(TagEn),
                   group_id |-> "subs", channels |-> NoneStr]>>,
      language |-> Lang(TagEn)] :
        keys \in {<<>>}
                 \cup SeqsUpTo({K1, K2, KNone,
                                Key("SAMPLE-AES", WidevineUrnMixed, <<"data", "pssh">>),
                                Key("SAMPLE-AES", FairPlayFormat, <<"skd://1">>)},
                               MaxSessionKeys),
        ch \in {NoneStr, "16/JOC"}}
    \cup
    {[fn |-> "to_tracks", session_keys |-> <<K1>>,
      playlists |-> <<[video |-> v, audio |-> NoneStr]>>, media |-> m, language |-> f] :
        v \in BOOLEAN,
        m \in SeqsUpTo({[type |-> t, uri |-> u, language |-> l, group_id |-> NoneStr,
                         channels |-> NoneStr] :
                           t \in {"AUDIO", "SUBTITLES"}, u \in {"m.m3u8", NoneStr},
                           l \in {LangNone, Lang(<<>>), Lang(<<" ", "e", "n">>),
                                  Lang(<<"E", "N">>), Lang(<<"e", "n", "-", "U", "S">>),
                                  Lang(<<"f", "r">>), Lang(TagUnd),
                                  Lang(<<"u", "n", "d", "-", "L", "a", "t", "n">>),
                                  Lang(<<"x", "!">>)}},
                       MaxMedia),
        f \in {LangNone, Lang(<<>>), Lang(TagEn), Lang(<<"f", "r">>), Lang(TagUnd)}}

CallToTracks ==
    /\ pc = "call"
    /\ call.fn = "to_tracks"
    /\ ret' = to_tracks(call.session_keys, call.playlists, call.media, call.language)
    /\ pc' = "returned"
    /\ UNCHANGED staticFrame

TracksSpec == InitStatic(ToTracksCalls) /\ [][CallToTracks]_vars

(***************************************************************************)
(* Properties of the static methods.                                       *)
(***************************************************************************)

Returned(fn) == pc = "returned" /\ call.fn = fn

\* str(first) + "-" + str(last)
RangeText(first, last) == IntToStr(first) \o <<"-">> \o IntToStr(last)

AllValid(toks) == \A k \in 1..Len(toks) : toks[k].valid

\* C6: calculate_byte_range gives "O-(O+L-1)" for "L@O" whatever the fallback offset
\* is, "F-(F+L-1)" for "L" with an integer fallback offset F, and raises for every
\* input whose "@"-separated tokens are not one or two integers.
C6_CalculateByteRange ==
    Returned("calculate_byte_range") =>
        LET toks == call.tokens
            F == call.fallback_offset
        IN  /\ (AllValid(toks) /\ Len(toks) = 2) =>
                   ret = Ok(RangeText(toks[2].n, toks[2].n + toks[1].n - 1))
            /\ (AllValid(toks) /\ Len(toks) = 1 /\ F.t = "int") =>
                   ret = Ok(RangeText(F.v, F.v + toks[1].n - 1))
            /\ (~AllValid(toks) \/ Len(toks) > 2) => ~ret.ok

\* "100@0" with a fallback offset of 300 has returned "0-99"
C6_Witness ==
    /\ Returned("calculate_byte_range")
    /\ call.m3u_range = <<"1", "0", "0", "@", "0">>
    /\ call.fallback_offset = PyInt(300)
    /\ ret = Ok(<<"0", "-", "9", "9">>)

HasMethodNone(keys) == \E k \in 1..Len(keys) : keys[k].method = "NONE"

\* the supported systems, spelled out: AES-128, ISO-23001-7, or the Widevine URN in
\* any letter case as the keyformat
Supported(key) ==
    \/ key.method \in {"AES-128", "ISO-23001-7"}
    \/ key.keyformat \in {WidevineUrn, WidevineUrnMixed}

\* C7: when any descriptor of the key list has method=NONE, get_supported_key returns
\* the plaintext sentinel (the null key), wherever that descriptor is and whatever the
\* other descriptors are, and raises nothing.
C7_NoneGivesPlaintext ==
    (Returned("get_supported_key") /\ HasMethodNone(call.keys)) => ret = Ok(NoKey)

\* an unsupported descriptor first, a supported one second, the NONE descriptor last
C7_Witness ==
    /\ Returned("get_supported_key")
    /\ Len(call.keys) = 3
    /\ ~Supported(call.keys[1]) /\ call.keys[1].method # "NONE"
    /\ Supported(call.keys[2]) /\ call.keys[2].method # "NONE"
    /\ call.keys[3].method = "NONE"
    /\ ret = Ok(NoKey)

\* C8: without a method=NONE descriptor, get_supported_key returns the first
\* descriptor in list order that is AES-128, ISO-23001-7 or has the Widevine URN, in
\* any letter case, as keyformat; unsupported descriptors before it are skipped.
C8_FirstSupported ==
    (/\ Returned("get_supported_key")
     /\ ~HasMethodNone(call.keys)
     /\ \E k \in 1..Len(call.keys) : Supported(call.keys[k])) =>
        LET first == CHOOSE k \in 1..Len(call.keys) :
                        /\ Supported(call.keys[k])
                        /\ \A j \in 1..(k - 1) : ~Supported(call.keys[j])
        IN  ret = Ok(call.keys[first])

\* a FairPlay descriptor is skipped and the mixed-case Widevine URN behind it is
\* returned, though a supported descriptor follows
C8_Witness ==
    /\ Returned("get_supported_key")
    /\ call.keys = <<Key("SAMPLE-AES", FairPlayFormat, <<"uri">>),
                     Key("SAMPLE-AES", WidevineUrnMixed, <<"uri">>),
                     Key("AES-128", NoneStr, <<"uri">>)>>
    /\ ret = Ok(Key("SAMPLE-AES", WidevineUrnMixed, <<"uri">>))

\* the method of a descriptor, followed by its keyformat in brackets when it has one
DescriptorText(key) ==
    IF key.keyformat \in {NoneStr, ""} THEN key.method
    ELSE key.method \o " (" \o key.keyformat \o ")"

RECURSIVE DescriptorTexts(_)
DescriptorTexts(keys) ==
    IF Len(keys) = 0 THEN ""
    ELSE DescriptorText(Head(keys))
         \o (IF Len(keys) > 1 THEN ", " \o DescriptorTexts(Tail(keys)) ELSE "")

\* C9: without a method=NONE descriptor and without a supported one, get_supported_key
\* raises NotImplementedError with a message that lists the method, and the keyformat
\* when present, of every descriptor; it returns neither a key nor the sentinel.
C9_UnsupportedRaises ==
    (/\ Returned("get_supported_key")
     /\ ~HasMethodNone(call.keys)
     /\ \A k \in 1..Len(call.keys) : ~Supported(call.keys[k])) =>
        /\ ~ret.ok
        /\ ret.err = "NotImplementedError"
        /\ ret.msg = "None of the key systems are supported: " \o DescriptorTexts(call.keys)

\* two unsupported descriptors, one with a keyformat and one without, are both listed
C9_Witness ==
    /\ Returned("get_supported_key")
    /\ call.keys = <<Key("SAMPLE-AES", FairPlayFormat, <<"uri">>),
                     Key("SAMPLE-AES", NoneStr, <<"uri">>)>>
    /\ ~ret.ok
    /\ ret.msg = "None of the key systems are supported: SAMPLE-AES (com.apple.streamingkeydelivery), SAMPLE-AES"

(***************************************************************************)
(* Properties of download_track.                                           *)
(***************************************************************************)

\* the calls of iteration j, in the order they were made
EventsOf(j) == SelectSeq(log, LAMBDA e : e.i = j)

\* the flush-decrypts that completed, and the discontinuity files written
Flushes == SelectSeq(log, LAMBDA e : e.ev = "decrypt")
Emissions == SelectSeq(log, LAMBDA e : e.ev = "merge_discontinuity" /\ e.to # <<>>)

IsFlushCall(e) == e.ev \in {"decrypt", "decrypt_failed"}

LastEvent == log[Len(log)]

ClearKey1 == Drm("ClearKey", "from_m3u_key", <<"https://keys/1">>)
ClearKey3 == Drm("ClearKey", "from_m3u_key", <<"https://keys/3">>)

\* the bytes of segment k after decryption by drm
Decrypted(k, drm) == [kind |-> "seg", id |-> k, dec |-> <<drm>>, ops |-> <<>>]
Plain(k) == [kind |-> "seg", id |-> k, dec |-> <<>>, ops |-> <<>>]

\* the key block of segment i > 0 selects a key that differs from the key of the
\* context in force; `done` tells whether decrypt() has returned
KeyChangeAt(done) ==
    /\ pc = "walk" /\ step = "key" /\ flushed = done
    /\ i > 0
    /\ Len(segment.keys) > 0
    /\ ~HasMethodNone(segment.keys)
    /\ \E k \in 1..Len(segment.keys) : Supported(segment.keys[k])
    /\ encryption_data # <<>>
    /\ encryption_data[2] # SelectedKey.val

\* C1: at a segment i > 0 whose key block selects a key different from the key of a
\* non-nil encryption context, the run [first_i, i-1] is flush-decrypted under the
\* previous DRM handler before the context is replaced, and the context is then
\* (i, new key, new DRM).  With K1 at index 0 and K2 at index 2 of 4 segments: flush
\* [0,1] under K1 at i=2, flush [2,3] under K2 at i=3, one discontinuity file.
C1_KeyChangeFlush ==
    [][/\ KeyChangeAt(FALSE) =>
              /\ Len(log') = Len(log) + 1
              /\ log'[Len(log')].ev = "decrypt"
              /\ log'[Len(log')].first = encryption_data[1]
              /\ log'[Len(log')].last = i - 1
              /\ log'[Len(log')].drm = encryption_data[3]
              /\ encryption_data' = encryption_data
       /\ KeyChangeAt(TRUE) =>
              encryption_data' = <<i, SelectedKey.val, get_drm(SelectedKey.val).val>>
       /\ (master \in ScenarioS2 /\ pc = "done") =>
              /\ Len(Flushes) = 2
              /\ Flushes[1].i = 2 /\ Flushes[1].first = 0 /\ Flushes[1].last = 1
              /\ Flushes[1].drm = ClearKey1
              /\ Flushes[2].i = 3 /\ Flushes[2].first = 2 /\ Flushes[2].last = 3
              /\ Flushes[2].drm = ClearKey3
              /\ Len(Emissions) = 1
      ]_vars

\* iteration j is past its discontinuity boundary
PastBoundary(j) ==
    \/ pc = "walk" /\ (i > j \/ (i = j /\ step \notin {"subtitle", "discon"}))
    \/ pc = "failed" /\ i = j /\ step \notin {"subtitle", "discon"}
    \/ pc \in {"final", "done", "returned"}

\* C2: a discontinuity flag on segment j > 0 causes exactly one flush-decrypt over the
\* run ending at j-1, if and only if an encryption context is in force, and exactly
\* one discontinuity file, both before anything else is done for segment j, whatever
\* the key block of segment j is.
C2_DiscontinuityOnce ==
    \A j \in 1..(Len(segments) - 1) :
        segments[j + 1].discontinuity =>
            LET evs == EventsOf(j)
                flushes == {k \in 1..Len(evs) : IsFlushCall(evs[k]) /\ evs[k].last = j - 1}
                emits == {k \in 1..Len(evs) :
                            evs[k].ev = "merge_discontinuity" /\ evs[k].last = j - 1}
            IN  /\ Cardinality(flushes) <= 1
                /\ Cardinality(emits) <= 1
                /\ PastBoundary(j) =>
                       /\ Cardinality(emits) = 1
                       /\ \A k \in emits :
                              /\ evs[k].to # <<>>
                              /\ IF evs[k].enc = <<>>
                                 THEN k = 1 /\ flushes = {}
                                 ELSE /\ k = 2 /\ flushes = {1}
                                      /\ evs[1].ev = "decrypt"
                                      /\ evs[1].first = evs[k].enc[1]
                                      /\ evs[1].drm = evs[k].enc[3]

\* the index in a segment file's name
FileIndex(f) == DigitsToNat(Stem(f))

\* between j and s, j excluded, some segment has a key block without NONE
KeyAppearsIn(j, s) ==
    \E t \in (j + 1)..s :
        Len(segments[t + 1].keys) > 0 /\ ~HasMethodNone(segments[t + 1].keys)

\* C3: after a segment whose key block has a method=NONE descriptor the encryption
\* context is nil, and no later segment is part of a flush-decrypt until a segment
\* with a supported key appears.  With AES-128 at 0, NONE at 2 and AES-128 at 4 the
\* runs are [0,1] and [4,N-1], and segments 2 and 3 reach the discontinuity file
\* undecrypted.
C3_PlaintextAfterNone ==
    /\ (pc = "walk" /\ step = "last" /\ HasMethodNone(segment.keys)) =>
           encryption_data = <<>>
    /\ \A n \in 1..Len(log) :
           IsFlushCall(log[n]) =>
               \A f \in Range(log[n].files) :
                   \A j \in 0..FileIndex(f) :
                       HasMethodNone(segments[j + 1].keys) => KeyAppearsIn(j, FileIndex(f))
    /\ (master \in ScenarioS4 /\ pc = "final") =>
           /\ Len(Flushes) = 2
           /\ Flushes[1].first = 0 /\ Flushes[1].last = 1
           /\ Flushes[2].first = 4 /\ Flushes[2].last = Len(master) - 1
           /\ DOMAIN save_dir = {<<"0", ".", "t", "s">>}
           /\ save_dir[<<"0", ".", "t", "s">>] =
                  [k \in 1..Len(master) |->
                      IF k - 1 \in {2, 3} THEN Plain(k - 1) ELSE Decrypted(k - 1, ClearKey1)]

\* the plaintext gap of six segments has been merged into the discontinuity file
C3_Witness ==
    /\ master \in ScenarioS4 /\ Len(master) = 6
    /\ pc = "final"
    /\ Len(Flushes) = 2
    /\ save_dir[<<"0", ".", "t", "s">>][3] = Plain(2)

S1Output == <<Decrypted(0, ClearKey1), Decrypted(1, ClearKey1), Decrypted(2, ClearKey1)>>

\* scenario S1 with the run file named `run`
S1Outcome(run) ==
    /\ (master \in ScenarioS1 /\ pc \in {"final", "done"}) =>
           /\ Len(Flushes) = 1
           /\ Flushes[1].first = 0 /\ Flushes[1].last = 2
           /\ Flushes[1].path = run
           /\ Len(Emissions) = 1
           /\ Emissions[1].to = <<"0", ".", "t", "s">>
    /\ (master \in ScenarioS1 /\ pc = "final") =>
           /\ DOMAIN save_dir = {<<"0", ".", "t", "s">>}
           /\ save_dir[<<"0", ".", "t", "s">>] = S1Output
    /\ (master \in ScenarioS1 /\ pc = "done") => save_path.data = S1Output

\* C4 as stated: in scenario S1 (3 segments, one AES-128 key from segment 0) the walk
\* makes one flush-decrypt, [0,2], whose file is 000-002_decrypted.ts, writes one
\* discontinuity file, 0.ts, and the final output is that file.
C4_S1_AsStated ==
    S1Outcome(<<"0", "0", "0", "-", "0", "0", "2">> \o DecryptedMark \o <<".", "t", "s">>)

\* C4 as amended: the run file is named 0-2_decrypted.ts, the indices padded to the
\* one digit of len(str(3)).
C4_S1_Amended ==
    S1Outcome(<<"0", "-", "2">> \o DecryptedMark \o <<".", "t", "s">>)

C4_Witness ==
    /\ master \in ScenarioS1
    /\ pc = "done"
    /\ Len(Flushes) = 1
    /\ save_path.data = S1Output

\* the bounds of an emitted Range header, "bytes=<first>-<last>"
RangeBounds(r) ==
    LET p == Split(SubSeq(r, Len(BytesPrefix) + 1, Len(r)), "-")
    IN  <<DigitsToNat(p[1]), DigitsToNat(p[2])>>

HasOffset(byterange) == \E k \in 1..Len(byterange) : byterange[k] = "@"

ExplicitOffset(byterange) == DigitsToNat(Split(byterange, "@")[2])

Ranges(us) == [k \in 1..Len(us) |-> us[k].Range]

\* C5: Phase 1 emits a Range for every segment with a byterange; a byterange without
\* an explicit offset begins one byte after the last byte of the previous byterange
\* segment's range, an explicit offset overrides that carry.  For "100@0", "200",
\* "50@500" the ranges are 0-99, 100-299, 500-549.
C5_ByteRangeCarry ==
    [][(pc = "urls" /\ \E n \in 1..Len(segments) : Len(segments[n].byterange) > 0) =>
          /\ pc' = "download"
          /\ Len(urls') = Len(segments)
          /\ \A n \in 1..Len(segments) :
                 Len(segments[n].byterange) > 0 =>
                     /\ Len(urls'[n].Range) > 0
                     /\ HasOffset(segments[n].byterange) =>
                            RangeBounds(urls'[n].Range)[1] = ExplicitOffset(segments[n].byterange)
                     /\ (n > 1 /\ Len(segments[n - 1].byterange) > 0
                              /\ ~HasOffset(segments[n].byterange)) =>
                            RangeBounds(urls'[n].Range)[1] =
                                RangeBounds(urls'[n - 1].Range)[2] + 1
          /\ [n \in 1..Len(segments) |-> segments[n].byterange] = <<R100at0, R200, R50at500>> =>
                 Ranges(urls') = <<BytesPrefix \o <<"0", "-", "9", "9">>,
                                   BytesPrefix \o <<"1", "0", "0", "-", "2", "9", "9">>,
                                   BytesPrefix \o <<"5", "0", "0", "-", "5", "4", "9">>>>
      ]_vars

\* the two indices in the name of a run file, "<first>-<last>_decrypted<ext>"
RunFileIndices(path) ==
    LET stem == Stem(path)
        p == Split(SubSeq(stem, 1, Len(stem) - Len(DecryptedMark)), "-")
    IN  <<DigitsToNat(p[1]), DigitsToNat(p[2])>>

\* C10: a flush-decrypt over [first, last] that completes consumes the last-first+1
\* raw segment files with indices first..last, in this order, writes them to one run
\* file after one copy of the cached init bytes when there are any, deletes them,
\* decrypts the run file and leaves it as <first>-<last>_decrypted<ext>.
C10_FlushDecryptFiles ==
    [][(Len(log') = Len(log) + 1 /\ log'[Len(log')].ev = "decrypt") =>
          LET e == log'[Len(log')]
              init == IF map_data # <<>> THEN map_data[2] ELSE <<>>
              ext == Suffix(segments[e.last + 1].uri)
          IN  /\ e.last >= e.first
              /\ Len(e.files) = e.last - e.first + 1
              /\ \A k \in 1..Len(e.files) :
                     /\ e.files[k] \in DOMAIN seg_dir
                     /\ IsDigit(Stem(e.files[k]))
                     /\ DigitsToNat(Stem(e.files[k])) = e.first + k - 1
                     /\ Len(seg_dir[e.files[k]]) = 1
                     /\ seg_dir[e.files[k]][1].kind = "seg"
                     /\ seg_dir[e.files[k]][1].id = e.first + k - 1
                     /\ seg_dir[e.files[k]][1].dec = <<>>
              /\ DOMAIN seg_dir' = (DOMAIN seg_dir \ Range(e.files)) \cup {e.path}
              /\ \A f \in DOMAIN seg_dir' \ {e.path} : seg_dir'[f] = seg_dir[f]
              /\ e.path \notin DOMAIN seg_dir
              /\ SubSeq(Stem(e.path), Len(Stem(e.path)) - Len(DecryptedMark) + 1,
                        Len(Stem(e.path))) = DecryptedMark
              /\ Suffix(e.path) = ext
              /\ RunFileIndices(e.path) = <<e.first, e.last>>
              /\ Len(seg_dir'[e.path]) = Len(init) + Len(e.files)
              /\ seg_dir'[e.path] =
                     [k \in 1..(Len(init) + Len(e.files)) |->
                         IF k <= Len(init)
                         THEN [init[k] EXCEPT !.dec = @ \o <<e.drm>>]
                         ELSE [seg_dir[e.files[k - Len(init)]][1] EXCEPT !.dec = <<e.drm>>]]
      ]_vars

\* a run of two segments has just been merged after the init bytes and decrypted
C10_Witness ==
    /\ pc = "walk" /\ flushed
    /\ map_data # <<>>
    /\ Len(log) > 0
    /\ LastEvent.ev = "decrypt"
    /\ LastEvent.last > LastEvent.first
    /\ LastEvent.path \in DOMAIN seg_dir

\* a call of decrypt() is about to be made
FlushPending == pc = "walk" /\ CallsDecrypt /\ ~flushed

\* the interval [a, b] the pending call is for
FlushFirst == encryption_data[1]
FlushLast == IF step = "last" THEN i ELSE i - 1

\* the files of segments/ whose stem is an integer in [a, b]
FilesInInterval(a, b) ==
    {f \in DOMAIN seg_dir : IsDigit(Stem(f)) /\ a <= DigitsToNat(Stem(f)) /\ DigitsToNat(Stem(f)) <= b}

\* C11: a flush-decrypt over [a, b] fails with the missing-segments error whenever the
\* number of files of segments/ with an integer stem in [a, b] is not b-a+1; nothing is
\* then merged, deleted, decrypted or renamed, and OnDecrypted is not fired.
C11_MissingSegments ==
    [][(FlushPending
            /\ Cardinality(FilesInInterval(FlushFirst, FlushLast)) # FlushLast - FlushFirst + 1) =>
          /\ pc' = "failed"
          /\ err' = "ValueError"
          /\ seg_dir' = seg_dir
          /\ save_dir' = save_dir
          /\ Len(log') = Len(log) + 1
          /\ SubSeq(log', 1, Len(log)) = log
          /\ log'[Len(log')].ev = "decrypt_failed"
      ]_vars

\* one of two segment files is missing and the flush over [0, 1] has failed, the
\* other file still in place
C11_Witness ==
    /\ pc = "failed" /\ err = "ValueError"
    /\ Len(log) > 0
    /\ LastEvent.ev = "decrypt_failed"
    /\ LastEvent.last > LastEvent.first
    /\ Len(LastEvent.files) = 1
    /\ Range(LastEvent.files) \subseteq DOMAIN seg_dir

\* the segments up to k that declare an init section or start a discontinuity
InitMarks(k) ==
    {j \in 0..k : segments[j + 1].init_section # NoInit
                  \/ (segments[j + 1].discontinuity /\ j > 0)}

\* the init section in effect for segment k: the last one declared up to k in its
\* discontinuity
InitInEffect(k) ==
    IF InitMarks(k) = {} THEN NoInit
    ELSE segments[(CHOOSE j \in InitMarks(k) : \A m \in InitMarks(k) : m <= j) + 1].init_section

\* the run file of the flush that has just completed starts with the bytes of `init`
RunStartsWith(data, init) ==
    IF init = NoInit THEN data[1].kind = "seg"
    ELSE /\ data[1].kind = "init" /\ data[1].id = init.uri
         /\ Len(data) > 1 /\ data[2].kind = "seg"

\* C12: the init bytes prefixed to a flushed run [first, last] are those of the init
\* section in effect for the segments of the run, also when the segment whose key
\* change triggers the flush declares a different init section.
C12_InitOfTheRun ==
    [][(Len(log') = Len(log) + 1 /\ log'[Len(log')].ev = "decrypt") =>
          LET e == log'[Len(log')]
          IN  (\A k \in e.first..e.last : InitInEffect(k) = InitInEffect(e.first)) =>
                  RunStartsWith(seg_dir'[e.path], InitInEffect(e.first))
      ]_vars

\* the indices i > 0 of the segments that carry the discontinuity flag
Boundaries == {j \in 1..(Len(segments) - 1) : segments[j + 1].discontinuity}

\* where the d-th discontinuity-bounded group starts and ends
GroupStart(d) ==
    IF d = 0 THEN 0
    ELSE CHOOSE j \in Boundaries : Cardinality({b \in Boundaries : b < j}) = d - 1
GroupEnd(d) ==
    IF d = Cardinality(Boundaries) THEN Len(segments) - 1 ELSE GroupStart(d + 1) - 1

\* the indices of the segments whose bytes are in data, in the order of the bytes
SegmentIds(data) ==
    LET segs == SelectSeq(data, LAMBDA c : c.kind = "seg")
    IN  [k \in 1..Len(segs) |-> segs[k].id]

\* C13: discontinuity files are produced in strictly increasing discon_i from 0, one
\* per discontinuity-bounded group, 1 + the number of flagged segments i > 0 in all,
\* and in each of them the segment bytes are in playlist order, whether the group is
\* made of raw segment files, decrypted run files or both.
C13_DisconOrder ==
    /\ \A k \in 1..Len(Emissions) :
           /\ IsDigit(Stem(Emissions[k].to))
           /\ DigitsToNat(Stem(Emissions[k].to)) = k - 1
    /\ pc = "final" =>
           /\ Len(Emissions) = 1 + Cardinality(Boundaries)
           /\ DOMAIN save_dir = {Emissions[k].to : k \in 1..Len(Emissions)}
           /\ \A k \in 1..Len(Emissions) :
                  SegmentIds(save_dir[Emissions[k].to]) =
                      [n \in 1..(GroupEnd(k - 1) - GroupStart(k - 1) + 1) |->
                          GroupStart(k - 1) + n - 1]

\* two discontinuity files, the first made of a decrypted run and raw segments, the
\* second of a raw segment and a decrypted run
C13_Witness ==
    /\ master \in ScenarioMixed
    /\ pc = "final"
    /\ Len(Emissions) = 2
    /\ \A k \in 1..2 :
           /\ \E c \in Range(save_dir[Emissions[k].to]) : c.kind = "seg" /\ c.dec = <<>>
           /\ \E c \in Range(save_dir[Emissions[k].to]) : c.kind = "seg" /\ c.dec # <<>>

\* ceil(log10(n)) and the number of decimal digits of n, for n >= 1
CeilLog10(n) == CHOOSE d \in 0..5 : 10^d >= n /\ (d = 0 \/ 10^(d - 1) < n)
DigitsOf(n) == CHOOSE d \in 1..5 : 10^(d - 1) <= n /\ n < 10^d

\* the indices in a file name: one for a segment or discontinuity file, two for a run
NameIndices(name) == Split(RemoveSub(Stem(name), DecryptedMark), "-")

\* every index in the name of every file written so far is zero-padded to w digits,
\* and the file of segment k is named by its index and the suffix of its URI
NamesPaddedTo(w) ==
    /\ \A name \in (DOMAIN seg_dir) \cup (DOMAIN save_dir) :
           \A n \in 1..Len(NameIndices(name)) :
               LET p == NameIndices(name)[n]
               IN  IsDigit(p) /\ p = ZFill(IntToStr(DigitsToNat(p)), w)
    /\ \A name \in DOMAIN seg_dir :
           IsDigit(Stem(name)) =>
               /\ DigitsToNat(Stem(name)) < Len(segments)
               /\ Suffix(name) = Suffix(segments[DigitsToNat(Stem(name)) + 1].uri)

\* C14 as stated: for N >= 1 retained segments, segment file names and the indices in
\* run and discontinuity file names are zero-padded to ceil(log10(N)) digits and
\* followed by the suffix of the segment URI.
C14_PaddedToCeilLog10 ==
    (pc \in {"walk", "final"} /\ Len(segments) >= 1) => NamesPaddedTo(CeilLog10(Len(segments)))

\* C14 as amended: the indices are zero-padded to len(str(N)) digits, the number of
\* decimal digits of N, and every index has exactly that many digits.
C14_PaddedToDigitsOfN ==
    (pc \in {"walk", "final"} /\ Len(segments) >= 1) =>
        /\ NamesPaddedTo(DigitsOf(Len(segments)))
        /\ \A name \in (DOMAIN seg_dir) \cup (DOMAIN save_dir) :
               \A n \in 1..Len(NameIndices(name)) :
                   Len(NameIndices(name)[n]) = DigitsOf(Len(segments))

\* ten segments: a segment file, a run file and a discontinuity file with two-digit
\* indices exist together
C14_Witness ==
    /\ Len(segments) = 10
    /\ pc = "walk"
    /\ \E name \in DOMAIN seg_dir : IsDigit(Stem(name)) /\ Len(Stem(name)) = 2
    /\ \E name \in DOMAIN seg_dir : Len(NameIndices(name)) = 2
    /\ DOMAIN save_dir # {}

\* the license callback has just raised
LicenseRaised == Len(log) > 0 /\ LastEvent.ev = "license" /\ ~LastEvent.ok

\* C15: whenever the license callback raises, for the session DRM before the download
\* or for a segment's key during the walk, the cancellation signal is set and the
\* error reaches the caller of download_track.
C15_LicenseFailureCancels ==
    LicenseRaised => (pc = "failed" /\ err = "LicenseError" /\ cancelled)

\* C16: the walk checks the cancellation signal between iterations: an iteration that
\* would start with the signal set is not entered, so nothing is flushed, merged,
\* fetched, licensed or advanced for its segment or any later one.
C16_CancelStopsWalk ==
    [][(pc = "walk" /\ cancelled) =>
          /\ (step = "subtitle" /\ i > 0) => pc' # "walk"
          /\ (step = "subtitle" /\ i > 0) =>
                 (log' = log /\ prog' = prog /\ seg_dir' = seg_dir /\ save_dir' = save_dir
                  /\ map_data' = map_data /\ encryption_data' = encryption_data)
      ]_vars

\* some call recorded for iteration j satisfies P
SomeEventAt(j, P(_)) == \E n \in 1..Len(log) : log[n].i = j /\ P(log[n])

\* the key selected by the last key block before segment j, NoKey when there is none
KeyInForce(j) ==
    LET blocks == {k \in 0..(j - 1) : Len(segments[k + 1].keys) > 0}
    IN  IF blocks = {} THEN NoKey
        ELSE get_supported_key(
                 segments[(CHOOSE k \in blocks : \A m \in blocks : m <= k) + 1].keys).val

\* segment j has a key block that selects a key other than the one in force
SelectsNewKey(j) ==
    /\ Len(segments[j + 1].keys) > 0
    /\ get_supported_key(segments[j + 1].keys).ok
    /\ get_supported_key(segments[j + 1].keys).val # NoKey
    /\ get_supported_key(segments[j + 1].keys).val # KeyInForce(j)

\* segment j declares an init section other than the one in effect
DeclaresNewInit(j) ==
    /\ segments[j + 1].init_section # NoInit
    /\ (j = 0 \/ (segments[j + 1].discontinuity /\ j > 0)
          \/ InitInEffect(j - 1) # segments[j + 1].init_section)

FinalEvents == {"write_save_path", "rmtree", "set_track_path", "OnDownloaded"}

\* C17: with the license-only flag set for the whole walk, every iteration performs its
\* discontinuity, init-section and key-update steps, DRM construction and licensing
\* included, but not the last-segment flush-decrypt, the last merge or the progress
\* advance; after the loop there is no final assembly: save_path is not written, the
\* working directory is kept, track.path is not set and OnDownloaded is not fired.
C17_LicenceOnly ==
    env.licence_only =>
        /\ prog.completed = 0
        /\ \A n \in 1..Len(log) :
               /\ log[n].ev \notin FinalEvents
               /\ log[n].ev \in {"decrypt", "decrypt_failed", "merge_discontinuity"} =>
                      log[n].last = log[n].i - 1
        /\ pc # "done"
        /\ save_path = NoFile
        /\ track_path = ""
        /\ pc = "returned" =>
               /\ DOMAIN seg_dir # {}
               /\ \A j \in 0..(Len(segments) - 1) :
                      /\ j \in Boundaries =>
                             SomeEventAt(j, LAMBDA e : e.ev = "merge_discontinuity")
                      /\ DeclaresNewInit(j) =>
                             SomeEventAt(j, LAMBDA e : e.ev = "get_init"
                                                       /\ e.init = segments[j + 1].init_section)
                      /\ SelectsNewKey(j) =>
                             /\ SomeEventAt(j, LAMBDA e : e.ev = "get_drm")
                             /\ get_drm(get_supported_key(segments[j + 1].keys).val).val.cls
                                    = "Widevine" =>
                                    SomeEventAt(j, LAMBDA e : e.ev = "license" /\ e.ok)

\* a license-only call has returned after licensing a segment's key and passing a
\* discontinuity
C17_Witness ==
    /\ env.licence_only
    /\ pc = "returned"
    /\ \E n \in 1..Len(log) : log[n].ev = "license" /\ log[n].i >= 0
    /\ \E n \in 1..Len(log) : log[n].ev = "merge_discontinuity"
    /\ DOMAIN seg_dir # {}

\* C18: for a Video or Audio track the listing given to the concat demuxer has one
\* entry per discontinuity file, in increasing discon_i order, and no other entry of
\* the working directory.
C18_ConcatListing ==
    (pc = "done" /\ track.type \in {"Video", "Audio"}) =>
        /\ save_path.tool = "ffmpeg"
        /\ save_path.listing = [k \in 1..Len(Emissions) |-> Emissions[k].to]

\* the steps of the final assembly made so far, in the order they were made
FinalSteps ==
    LET evs == SelectSeq(log, LAMBDA e : e.ev \in FinalEvents)
    IN  [k \in 1..Len(evs) |-> evs[k].ev]

\* what holds of the final assembly in every state
FinalAssemblyState ==
    /\ pc = "done" =>
           /\ FinalSteps = <<"write_save_path", "rmtree", "set_track_path", "OnDownloaded">>
           /\ save_path # NoFile
           /\ save_dir = <<>> /\ seg_dir = <<>>
           /\ track_path = "save_path"
    /\ pc # "done" =>
           /\ FinalSteps = <<>>
           /\ save_path = NoFile
           /\ track_path = ""

\* C19: a successful download that is not license-only writes save_path, removes the
\* working directory, sets track.path and fires OnDownloaded, in this order and each
\* once.  When the call fails (licensing, missing segments, transport, no merge tool)
\* the directory is not removed, track.path is not set, OnDownloaded is not fired, and
\* the intermediate files stay where they are.
C19_FinalAssembly ==
    [][/\ FinalAssemblyState'
       /\ (pc' = "done") => ~env.licence_only
       /\ (pc' = "failed" /\ pc # "failed") => (seg_dir' = seg_dir /\ save_dir' = save_dir)
      ]_vars

\* the merge tool is missing: the call has failed with the discontinuity file in place
C19_Witness ==
    /\ pc = "failed" /\ err = "EnvironmentError"
    /\ DOMAIN save_dir # {}
    /\ track_path = ""
    /\ FinalSteps = <<>>

\* the downloader the claim expects for the whole track
ExpectedDownloader ==
    IF env.downloader = "aria2c" /\ \E n \in 1..Len(segments) : Len(segments[n].byterange) > 0
    THEN "requests"
    ELSE env.downloader

\* a byterange without an offset follows an earlier byterange
NeedsCarriedOffset ==
    \E n \in 2..Len(segments) :
        /\ Len(segments[n].byterange) > 0 /\ ~HasOffset(segments[n].byterange)
        /\ \E m \in 1..(n - 1) : Len(segments[m].byterange) > 0

\* C20: the downloader is chosen once for the whole track: the plain HTTP downloader
\* when aria2c is configured and some retained segment has a byterange, the configured
\* downloader otherwise; every segment is fetched with it, and the downgrade raises
\* no error.
C20_DownloaderChoice ==
    [][/\ pc = "urls" =>
              /\ pc' = "download" =>
                     /\ downloader_' = ExpectedDownloader
                     /\ Len(urls') = Len(segments)
              /\ pc' # "download" =>
                     (pc' = "failed" /\ err' = "TypeError" /\ NeedsCarriedOffset)
       /\ pc \in {"download", "walk", "final"} =>
              (downloader_' = downloader_ /\ downloader_ = ExpectedDownloader)
      ]_vars

\* aria2c is configured; the second of two segments has a byterange and both are about
\* to be fetched with the plain HTTP downloader
C20_Witness ==
    /\ pc = "download"
    /\ env.downloader = "aria2c"
    /\ Len(segments) = 2
    /\ Len(segments[1].byterange) = 0
    /\ Len(segments[2].byterange) > 0
    /\ downloader_ = "requests"
    /\ Len(urls) = 2

\* C21: the subtitle step rewrites the segment file (UTF-8 coercion, then the unescape
\* of &lrm; and &rlm;) if and only if the track is a Subtitle whose codec is neither
\* fragmented VTT nor fragmented TTML; for every other track, a Subtitle with a
\* fragmented codec included, the step leaves the bytes of the file unchanged.
C21_SubtitleNormalisation ==
    [][(pc = "walk" /\ step = "subtitle") =>
          IF track.type = "Subtitle" /\ track.codec \notin {"fVTT", "fTTML"}
          THEN seg_dir' = [seg_dir EXCEPT ![segment_file_path] =
                              [k \in 1..Len(@) |->
                                  [@[k] EXCEPT !.ops =
                                      @ \o (IF env.encoding \in {"cp1252", "detected"}
                                            THEN <<"utf8">> ELSE <<>>)
                                        \o (IF env.entities THEN <<"unescape">> ELSE <<>>)]]]
          ELSE seg_dir' = seg_dir
      ]_vars

\* the entries of manifest.media that have a URI, in order
MediaWithUri(media) == SelectSeq(media, LAMBDA m : Truthy(m.uri))

\* the first of media.language and the fallback that is a valid tag not starting with
\* "und", as a set of at most one tag
FirstQualifying(m, fallback) ==
    LET a == Strip(StrOf(m.language))
        b == Strip(StrOf(fallback))
    IN  IF tag_is_valid(a) /\ ~StartsWith(a, TagUnd) THEN {a}
        ELSE IF tag_is_valid(b) /\ ~StartsWith(b, TagUnd) THEN {b}
        ELSE {}

\* C22: for the MEDIA entries with a URI, to_tracks resolves the language to the first
\* of media.language and the fallback that is a valid tag not starting with "und"; when
\* neither qualifies for some entry the call fails with the language error and gives
\* no track; is_original_lang is true exactly when a fallback was given and the
\* resolved language closely matches it.
C22_LanguageResolution ==
    (Returned("to_tracks") /\ get_all_drm(call.session_keys).ok) =>
        LET entries == MediaWithUri(call.media)
            base == Len(call.playlists)
        IN  IF \E k \in 1..Len(entries) : FirstQualifying(entries[k], call.language) = {}
            THEN ~ret.ok /\ ret.err = "ValueError"
            ELSE /\ ret.ok
                 /\ Len(ret.val) = base + Len(entries)
                 /\ \A k \in 1..Len(entries) :
                        LET t == ret.val[base + k]
                            resolved == Language_get(
                                CHOOSE o \in FirstQualifying(entries[k], call.language) : TRUE)
                        IN  /\ t.language = Lang(resolved)
                            /\ t.is_original_lang <=>
                                   /\ ~call.language.none
                                   /\ closest_match_distance(resolved, <<StrOf(call.language)>>)
                                          <= LANGUAGE_MAX_DISTANCE

\* LANGUAGE="und" with the fallback "en": the track is in en and is_original_lang
C22_Witness ==
    /\ Returned("to_tracks")
    /\ call.language = Lang(TagEn)
    /\ \E k \in 1..Len(call.media) :
           call.media[k].language = Lang(TagUnd) /\ Truthy(call.media[k].uri)
    /\ ret.ok
    /\ Len(ret.val) = Len(call.playlists) + 1
    /\ ret.val[Len(ret.val)].language = Lang(TagEn)
    /\ ret.val[Len(ret.val)].is_original_lang

\* the handler of a supported key: ClearKey of the key URI for AES-128, Widevine of the
\* key id for ISO-23001-7, Widevine of the PSSH for the Widevine keyformat
HandlerOf(key) ==
    IF key.method = "AES-128" THEN Drm("ClearKey", "from_m3u_key", key.uri)
    ELSE IF key.method = "ISO-23001-7" THEN Drm("Widevine", "PSSH.new", <<key.uri[Len(key.uri)]>>)
    ELSE Drm("Widevine", "PSSH", <<key.uri[Len(key.uri)]>>)

\* the session DRM list of a master playlist
SessionDrmOf(keys) ==
    IF HasMethodNone(keys) THEN <<>>
    ELSE LET supported == SelectSeq(keys, Supported)
         IN  [k \in 1..Len(supported) |-> HandlerOf(supported[k])]

\* C23: every track of a variant entry and every Audio track of a MEDIA entry carries
\* the session DRM list of the master playlist, every Subtitle track carries no DRM;
\* the list is empty when a session key has method=NONE and has one handler per
\* supported session key in list order otherwise; building it fails only when the key
\* list is not empty, has no NONE and has no supported key.
C23_SessionDrm ==
    Returned("to_tracks") =>
        LET keys == call.session_keys
            nothing_supported ==
                /\ Len(keys) > 0
                /\ ~HasMethodNone(keys)
                /\ \A k \in 1..Len(keys) : ~Supported(keys[k])
        IN  /\ (~ret.ok /\ ret.err = "NotImplementedError") <=> nothing_supported
            /\ ret.ok =>
                   \A k \in 1..Len(ret.val) :
                       IF ret.val[k].type = "Subtitle"
                       THEN ret.val[k].drm = NoDrm
                       ELSE ret.val[k].drm = SessionDrmOf(keys)

\* an unsupported session key beside a supported one: the Video and Audio tracks carry
\* the one handler, the Subtitle track none
C23_Witness ==
    /\ Returned("to_tracks")
    /\ Len(call.session_keys) = 2
    /\ \E k \in 1..2 : ~Supported(call.session_keys[k])
    /\ ret.ok
    /\ Len(ret.val) = 3
    /\ ret.val[1].type = "Video" /\ Len(ret.val[1].drm) = 1
    /\ ret.val[2].type = "Audio" /\ ret.val[2].drm = ret.val[1].drm
    /\ ret.val[3].type = "Subtitle" /\ ret.val[3].drm = NoDrm

\* the key block of the last segment selects a new key while a key is in force
KeyChangeOnLast ==
    /\ Len(segments) >= 2
    /\ KeyInForce(Len(segments) - 1) # NoKey
    /\ SelectsNewKey(Len(segments) - 1)

\* C24: the last-segment flush happens at i = N-1, after the boundary and the key update
\* of that segment: a flush-decrypt of [first_i, N-1] if and only if a context is in
\* force, then the merge of the discontinuity file including N-1.  This holds for a
\* playlist of one segment, for a discontinuity on the last segment, and for a key
\* change on the last segment, which gives the two flushes [first, N-2] and [N-1, N-1].
C24_LastSegmentFlush ==
    LET N == Len(segments)
        evs == EventsOf(N - 1)
        n == Len(evs)
    IN  /\ ~(pc = "failed" /\ i = N - 1 /\ step \in {"discon", "key", "last"})
        /\ pc = "final" =>
               /\ n >= 1
               /\ evs[n].ev = "merge_discontinuity"
               /\ evs[n].last = N - 1
               /\ IF evs[n].enc # <<>>
                  THEN /\ n >= 2
                       /\ evs[n - 1].ev = "decrypt"
                       /\ evs[n - 1].first = evs[n].enc[1]
                       /\ evs[n - 1].last = N - 1
                  ELSE \A k \in 1..n : IsFlushCall(evs[k]) => evs[k].last # N - 1
               /\ KeyChangeOnLast =>
                      /\ Len(Flushes) >= 2
                      /\ Flushes[Len(Flushes) - 1].last = N - 2
                      /\ Flushes[Len(Flushes)].first = N - 1
                      /\ Flushes[Len(Flushes)].last = N - 1

\* C25: after the boundary step of a flagged segment i > 0 the discontinuity index is
\* one more, the range offset is 0, the cached init section is nil, and a context that
\* was in force is (i, same key, same DRM handler), a nil context stays nil; the step
\* builds no DRM handler and requests no license.  With 6 segments, a discontinuity at
\* index 3 and one AES-128 key: flush [0,2], file 0, context rebased to 3, flush [3,5],
\* file 1.
C25_BoundaryStep ==
    [][/\ (pc = "walk" /\ step = "discon" /\ segment.discontinuity /\ i > 0
             /\ step' = "init") =>
              /\ discon_i' = discon_i + 1
              /\ range_offset' = PyInt(0)
              /\ map_data' = <<>>
              /\ IF encryption_data = <<>>
                 THEN encryption_data' = <<>>
                 ELSE encryption_data' = <<i, encryption_data[2], encryption_data[3]>>
              /\ Len(log') = Len(log) + 1
              /\ log'[Len(log')].ev = "merge_discontinuity"
       /\ (master \in ScenarioS5 /\ pc = "final") =>
              /\ Len(Flushes) = 2
              /\ Flushes[1].i = 3 /\ Flushes[1].first = 0 /\ Flushes[1].last = 2
              /\ Flushes[2].i = 5 /\ Flushes[2].first = 3 /\ Flushes[2].last = 5
              /\ Flushes[1].drm = ClearKey1 /\ Flushes[2].drm = ClearKey1
              /\ Len(SelectSeq(log, LAMBDA e : e.ev = "get_drm")) = 1
              /\ Len(Emissions) = 2
              /\ Emissions[1].i = 3 /\ Emissions[1].to = <<"0", ".", "t", "s">>
              /\ Emissions[2].i = 5 /\ Emissions[2].to = <<"1", ".", "t", "s">>
      ]_vars

C25_Witness ==
    /\ master \in ScenarioS5
    /\ pc = "walk" /\ i = 3 /\ step = "init"
    /\ encryption_data = <<3, K1, ClearKey1>>
    /\ discon_i = 1
    /\ Len(Flushes) = 1

\* the playlist indices OnSegmentFilter does not drop, and the j-th of them
KeptIndices ==
    {k \in 0..(Len(master) - 1) : ~(env.has_filter /\ k \in env.drop)}
KeptIndex(j) ==
    CHOOSE k \in KeptIndices : Cardinality({m \in KeptIndices : m < k}) = j

\* what holds of the retained segments from the filtering on
RetainedDensely ==
    LET N == Cardinality(KeptIndices)
    IN  /\ pc \in {"urls", "download", "walk", "final", "done"} =>
               /\ segments = [j \in 1..N |-> master[KeptIndex(j - 1) + 1]]
               /\ prog.total = N
        /\ pc \in {"download", "walk", "final", "done"} =>
               /\ Len(urls) = N
               /\ \A k \in 1..N : urls[k].url = segments[k].uri
        /\ pc = "walk" =>
               /\ i \in 0..(N - 1)
               /\ \A f \in DOMAIN seg_dir :
                      \A c \in Range(seg_dir[f]) : c.kind = "seg" => c.id \in 0..(N - 1)
        /\ (pc = "walk" /\ i = 0 /\ step = "subtitle") =>
               /\ Cardinality(DOMAIN seg_dir) = N
               /\ \A k \in 0..(N - 1) :
                      seg_dir[ZFill(IntToStr(k), Len(IntToStr(N))) \o Suffix(segments[k + 1].uri)]
                          = <<SegChunk(k)>>

\* C26: a segment is dropped exactly when OnSegmentFilter is set and returns true for
\* it; the N retained segments are numbered densely 0..N-1 in playlist order, the
\* progress total is N, exactly N URLs are handed to the downloader, and the walk
\* visits every index once, in increasing order.
C26_SegmentFilter ==
    [][/\ RetainedDensely'
       /\ i' = i \/ (i' = i + 1 /\ pc = "walk" /\ step = "last" /\ step' = "subtitle")
       /\ (pc = "walk" /\ pc' = "final") => i = Len(segments) - 1
      ]_vars

\* the second of three segments is dropped: the first and the third are segments 0
\* and 1 of the walk
C26_Witness ==
    /\ pc = "done"
    /\ env.has_filter /\ env.drop = {1}
    /\ Len(master) = 3
    /\ segments = <<master[1], master[3]>>
    /\ Len(urls) = 2
    /\ i = 1

\* the key update of segment i is about to run: any flush it calls has returned
AtKeyUpdate == pc = "walk" /\ step = "key" /\ (CallsDecrypt => flushed)

\* the key block selects a non-null key, and there is no context or its key differs
SelectsKeyToBuild ==
    /\ Len(segment.keys) > 0
    /\ SelectedKey.ok
    /\ SelectedKey.val # NoKey
    /\ (encryption_data = <<>> \/ encryption_data[2] # SelectedKey.val)

\* the key block re-declares the key of the context in force
RedeclaresKey ==
    /\ Len(segment.keys) > 0
    /\ SelectedKey.ok
    /\ SelectedKey.val # NoKey
    /\ encryption_data # <<>>
    /\ encryption_data[2] = SelectedKey.val

\* C27: the key update builds a DRM handler, and for a Widevine handler invokes the
\* license callback with the key id of the current init bytes or nil, exactly when the
\* key block selects a non-null key and there is no context or the context's key
\* differs; when the segment re-declares the key of the context nothing is flushed, no
\* handler is built, no license is requested and the context is unchanged.
C27_HandlerBuiltOnNewKey ==
    [][/\ AtKeyUpdate =>
              LET new == SubSeq(log', Len(log) + 1, Len(log'))
                  built == {k \in 1..Len(new) : new[k].ev = "get_drm"}
                  licensed == {k \in 1..Len(new) : new[k].ev = "license"}
              IN  IF SelectsKeyToBuild
                  THEN /\ Cardinality(built) = 1
                       /\ \A k \in built : new[k].key = SelectedKey.val /\ new[k].i = i
                       /\ IF \E k \in built : new[k].drm.cls = "Widevine"
                          THEN /\ Cardinality(licensed) = 1
                               /\ \A k \in licensed :
                                      /\ new[k].drm = get_drm(SelectedKey.val).val
                                      /\ new[k].kid = IF map_data = <<>> THEN <<>>
                                                      ELSE <<"kid", map_data[2][1].id>>
                          ELSE licensed = {}
                  ELSE built = {} /\ licensed = {}
       /\ (pc = "walk" /\ step = "key" /\ RedeclaresKey) =>
              /\ ~CallsDecrypt
              /\ log' = log
              /\ encryption_data' = encryption_data
              /\ seg_dir' = seg_dir
      ]_vars

\* a Widevine key at a segment that declared an init section: the license callback got
\* the key id of the init bytes
C27_Witness ==
    /\ pc = "walk" /\ step = "last"
    /\ i > 0
    /\ encryption_data # <<>> /\ encryption_data[1] = i /\ encryption_data[2] = K2
    /\ map_data # <<>>
    /\ LastEvent.ev = "license" /\ LastEvent.i = i /\ LastEvent.kid # <<>>

\* a context is in force once segment j has been processed: the last key block up to j
\* selects a key, or there is none and the track has session DRM
ContextInForceAt(j) ==
    LET blocks == {k \in 0..j : Len(segments[k + 1].keys) > 0}
    IN  IF blocks = {} THEN session_drm # NoDrm
        ELSE get_supported_key(
                 segments[(CHOOSE k \in blocks : \A m \in blocks : m <= k) + 1].keys).val # NoKey

\* C28: no encrypted segment reaches the output undecrypted: every segment processed
\* while a context was in force, the initial session-DRM context (0, nil, session_drm)
\* included, is part of exactly one flush-decrypt before it is merged, for every
\* sequence of key blocks, a first key block at i > 0 that selects NONE after a
\* session-DRM run included.
C28_NoEncryptedOutput ==
    pc = "final" =>
        /\ \A f \in DOMAIN save_dir :
               \A c \in Range(save_dir[f]) :
                   (c.kind = "seg" /\ ContextInForceAt(c.id)) => Len(c.dec) = 1
        /\ \A j \in 0..(Len(segments) - 1) :
               ContextInForceAt(j) =>
                   Cardinality({n \in 1..Len(Flushes) :
                                   Flushes[n].first <= j /\ j <= Flushes[n].last}) = 1

\* C29: for every combination of discontinuity flags and key blocks, with every segment
\* file present, each flush-decrypt is over a non-empty interval first <= last and the
\* walk never fails with the missing-segments error; first_segment_index <= i always,
\* and first_segment_index <= i-1 at every flush that excludes the current segment.
C29_NonEmptyFlush ==
    /\ \A n \in 1..Len(log) : IsFlushCall(log[n]) => log[n].first <= log[n].last
    /\ ~(pc = "failed" /\ err = "ValueError" /\ Len(log) > 0
           /\ LastEvent.ev = "decrypt_failed")
    /\ (pc = "walk" /\ encryption_data # <<>>) => encryption_data[1] <= i
    /\ (FlushPending /\ step # "last") => encryption_data[1] <= i - 1

\* the chunks of segment j in the discontinuity file f
ChunksOf(j, f) == {k \in 1..Len(save_dir[f]) : save_dir[f][k].kind = "seg" /\ save_dir[f][k].id = j}

\* C30: after a walk that completes and is not license-only, segments/ holds no file
\* and every retained index 0..N-1 has contributed its bytes exactly once, to exactly
\* one discontinuity file: the file of its discontinuity-bounded group.
C30_EverySegmentOnce ==
    (pc = "final" /\ ~env.licence_only) =>
        /\ DOMAIN seg_dir = {}
        /\ \A j \in 0..(Len(segments) - 1) :
               LET group == Cardinality({b \in Boundaries : b <= j})
                   holders == {f \in DOMAIN save_dir : ChunksOf(j, f) # {}}
               IN  /\ Cardinality(holders) = 1
                   /\ \A f \in holders :
                          /\ Cardinality(ChunksOf(j, f)) = 1
                          /\ FileIndex(f) = group

\* C31: selector and factory agree: whenever get_supported_key returns a non-null key
\* k, get_drm(k) does not fail with the unsupported-key-system error and builds the
\* handler by the precedence the selector accepted k under: method AES-128 gives
\* ClearKey, even with the Widevine URN as keyformat; otherwise method ISO-23001-7
\* gives Widevine with a synthesized PSSH; otherwise a Widevine-URN keyformat gives
\* Widevine with the decoded PSSH.
C31_SelectorAndFactoryAgree ==
    Returned("get_drm") =>
        LET k == call.key
            last_part == k.uri[Len(k.uri)]
        IN  /\ k = get_supported_key(call.keys).val
            /\ ret.ok
            /\ IF k.method = "AES-128"
               THEN ret.val = [cls |-> "ClearKey", how |-> "from_m3u_key", arg |-> k.uri]
               ELSE IF k.method = "ISO-23001-7"
               THEN ret.val = [cls |-> "Widevine", how |-> "PSSH.new", arg |-> <<last_part>>]
               ELSE /\ k.keyformat \in {WidevineUrn, WidevineUrnMixed}
                    /\ ret.val = [cls |-> "Widevine", how |-> "PSSH", arg |-> <<last_part>>]

\* an AES-128 key with the Widevine URN as keyformat, selected after an unsupported
\* key, gives ClearKey
C31_Witness ==
    /\ Returned("get_drm")
    /\ Len(call.keys) >= 2
    /\ call.key # call.keys[1]
    /\ call.key.method = "AES-128"
    /\ call.key.keyformat = WidevineUrn
    /\ ret.ok /\ ret.val.cls = "ClearKey"

====
